---------------------------- MODULE Spec2Model ----------------------------
(***************************************************************************)
(* Public request-coordination layer of the chatbot platform:              *)
(*   - the in-process fixed-window limiter of backend/server.js            *)
(*     (SpecExpress),                                                      *)
(*   - the KV-backed limiter of the Worker, unnamed/part_002 and           *)
(*     backend/src/index.js (SpecLimiter),                                 *)
(*   - the read-through public-config cache of the Worker, the chatbot     *)
(*     update that invalidates it and the account deletion (SpecCache,     *)
(*     and SpecCacheGet for the gets alone),                               *)
(*   - the chat and feedback endpoints of the Worker with the tables       *)
(*     chat_sessions and conversations (SpecSession, SpecFeedback),        *)
(*   - the widget's session handling against those endpoints (SpecWidget). *)
(*                                                                         *)
(* The Express limiter reads an absolute clock, `now` (Date.now()).  The   *)
(* Worker only ever hands the KV store relative expiries (expirationTtl),  *)
(* so its time is kept as the remaining life and the age of each entry.    *)
(* Limits, windows and TTLs are deployment configuration; they are scaled  *)
(* down (see the bounds) so that limits are reached and windows and TTLs   *)
(* run out.                                                                *)
(*                                                                         *)
(* The response variables (xResp, wResp, gResp, pResp, cResp, fResp,       *)
(* uResp) hold the response sent, or handled by the widget, in the latest  *)
(* step and are blank after any other step.  Fields                        *)
(* described as "history" record what a property needs to know about the   *)
(* past; no operation of the program reads them.                           *)
(***************************************************************************)
EXTENDS Integers, Sequences, FiniteSets, TLC

(***************************************************************************)
(* Bounds of the model                                                     *)
(***************************************************************************)
\* Express: clock units per second (Date.now() counts ms, retryAfter seconds)
MS_PER_SEC == 2
\* Express: seconds per window (60 in server.js)
WINDOW_SECS == 2
\* Express: admitted requests per window (20 in server.js)
RATE_LIMIT_MAX_REQUESTS == 3
\* Express: requests one client sends within one window
MaxSeen == 5
\* Worker limiter: requests simultaneously between their counter read and write
MaxInFlight == 2
\* Worker limiter: rateLimitMiddleware(50, 3600) of POST /api/chat, scaled
LIMIT_CHAT == 2
\* Worker limiter: rateLimitMiddleware(200, 3600) of GET /widget.js, scaled
LIMIT_WIDGET == 3
\* Worker limiter: rateLimitMiddleware(1000, 3600) of GET /public/chatbots/:id, scaled
LIMIT_CONFIG == 4
\* Worker limiter: the window of 3600 seconds, scaled
RL_WINDOW == 2
\* config cache: setCache(c, cacheKey, data, 60) of unnamed/part_002, scaled
CONFIG_TTL_60 == 2
\* config cache: setCache(c, cacheKey, data, 300) of backend/src/index.js, scaled
CONFIG_TTL_300 == 3
\* config cache: GET /public/chatbots/:id requests simultaneously in the handler
MaxGets == 1
\* config cache: PUT /api/chatbots/:id requests simultaneously in the handler
MaxPuts == 1
\* chat sessions: session ids the Worker generates
MaxGen == 1
\* chat sessions: valid POST /api/chat requests, which may all be in the handler
\* at once
MaxChats == 2
\* widget: messages the user sends
MaxArrivals == 2
\* widget: feedback requests in flight at once
MaxFeedback == 1
\* chat sessions: writes of chat requests that the store fails
MaxStoreErrors == 1
\* widget: setInterval(..., 60000), the period of the session check, scaled
CHECK_PERIOD == 2
\* widget: const sessionTimeout = 30 * 60 * 1000, scaled
SESSION_TIMEOUT == 2

\* bot messages the log of the widget holds at most
MaxShown == 3

\* if (sanitizedMessage.length > 500), scaled down
MAX_CHAT_MESSAGE == 3

\* .slice(0, 1000) of sanitizeInput, scaled down
SANITIZE_SLICE == 6

\* the longest message a client sends
MaxMessageLen == 4

\* messages of the users the sessions of a day hold at most
MaxLogged == 2

\* last instant of the Worker's time
MaxDate == 3

\* if (rating >= 1 && rating <= 5): the lowest rating stored
MIN_STORED_RATING == 1
\* if (!sessionId || rating < 0 || rating > 5): the highest rating accepted
MAX_RATING == 5

\* /^cb_[a-z0-9]{9}$/: the characters after cb_
CHATBOT_ID_SUFFIX == 9

NoIp == "NoIp"
None == "None"
\* a response that carries no retryAfter field
NoRetryAfter == 0 - 1

\* remote addresses a request to the Express server may carry; NoIp: not known
IPs == {"ip1", NoIp}

\* cf-connecting-ip headers a request to the Worker may carry
WIPs == {"ip1"}

\* route classes of the Worker that sit behind rateLimitMiddleware
Routes == {"chat", "config", "widget"}

\* the two snapshots of the Worker
Variants == {"part_002", "index"}

\* chatbot ids a request may name
ChatbotIds == {"cb1"}

\* values of the public fields
Names == {"Bot", "Shop"}
Colors == {"#667eea"}
Welcomes == {"Hi!"}

VARIABLES
    now,            \* Express: the clock (Date.now())
    rateLimitMap,   \* Express: Map ip -> {count, resetTime}
    xResp,          \* Express: the limiter's response sent in the latest step
    xSeen,          \* history: requests seen per client in its current window
    xAdmitted,      \* history: requests admitted per client in its current window
    xFinal,         \* Express: the status POST /api/chat answered in the latest step
    kv,             \* Worker: the KV namespace CHATBOT_CACHE, key -> value with expiry
    wReq,           \* Worker: requests inside checkRateLimit, between get and put
    wResp,          \* Worker: the limiter's response sent in the latest step
    wAdmChat,       \* history: chat requests whose counter write admitted them, per
                    \* client, since the client's counter entry was last created
    variant,        \* which snapshot of the Worker is deployed
    db,             \* the chatbots table (source of truth), id -> row
    gReq,           \* GET /public/chatbots/:id requests inside the handler
    gResp,          \* the GET /public/chatbots/:id response sent in the latest step
    pReq,           \* PUT /api/chatbots/:id requests inside the handler
    pResp,          \* the PUT /api/chatbots/:id response sent in the latest step
    lastGet,        \* history: per chatbot, the latest get completed since an invalidate
    srcAge,         \* history: per chatbot, time since its public view changed in db
    sess,           \* the chat_sessions table, session_id -> its rows
    conv,           \* the conversations table, session_id -> rows logged, by author
    nextGen,        \* session ids the Worker has generated so far
    chatReq,        \* POST /api/chat requests inside the handler
    cResp,          \* the POST /api/chat response sent in the latest step
    fResp,          \* the POST /api/chat/feedback response sent in the latest step
    storeErr,       \* history: writes of chat requests to the store that have failed
    arrivals,       \* history: messages the widget has sent so far
    wg,             \* the widget: its variables, its localStorage and its display
    fbSent,         \* feedback requests the widget has sent, not yet received
    uResp,          \* the response sendMessage of the widget handled in the latest step
    rResp,          \* the POST /api/chat response on its way to the widget, with the
                    \* completion API's reply as history
    botLog,         \* the texts of the bot's messages in the widget's log
    reqBody,        \* the JSON body of the chat request handled in the latest step
    vResp,          \* what POST /api/chat made of that body, up to its first write
    analytics,      \* the chat_analytics table: chatbot_id -> its rows of today
    chatSessions,   \* chat_sessions with its timestamps: session_id -> its row
    dateNow         \* the time of the Worker and of its database

xVars == <<rateLimitMap, xResp, xSeen, xAdmitted, xFinal>>
wVars == <<wReq, wResp, wAdmChat>>
cVars == <<variant, db, gReq, gResp, pReq, pResp, lastGet, srcAge>>
sVars == <<sess, conv, nextGen, chatReq, cResp, fResp, storeErr, arrivals>>
uiVars == <<wg, fbSent, uResp>>
rVars == <<rResp, botLog>>
vVars == <<reqBody, vResp>>
tVars == <<chatSessions, dateNow>>
nVars == <<rVars, vVars, analytics, tVars>>
vars == <<now, rateLimitMap, xResp, xSeen, xAdmitted, xFinal, kv, wReq, wResp, wAdmChat,
          variant, db, gReq, gResp, pReq, pResp, lastGet, srcAge,
          sess, conv, nextGen, chatReq, cResp, fResp, storeErr, arrivals, wg, fbSent, uResp,
          rResp, botLog, reqBody, vResp, analytics, chatSessions, dateNow>>

\* n, counted no further than cap
Sat(n, cap) == IF n > cap THEN cap ELSE n

Min(a, b) == IF a < b THEN a ELSE b

-----------------------------------------------------------------------------
(***************************************************************************)
(* backend/server.js: in-process limiter                                   *)
(***************************************************************************)
\* const RATE_LIMIT_WINDOW = 60 * 1000
RATE_LIMIT_WINDOW == WINDOW_SECS * MS_PER_SEC

\* last instant of the Express clock
MaxTime == RATE_LIMIT_WINDOW + 2

\* rateLimitMap.has(ip) is false
NoLimit == [has |-> FALSE, count |-> 0, resetTime |-> 0]

\* no response of the Express limiter in this step
XNone == [ip |-> None, status |-> None, retryAfter |-> NoRetryAfter,
          elapsed |-> FALSE, exhausted |-> FALSE]

\* const ip = req.ip || req.connection.remoteAddress || 'unknown'
ClientIp(ip) == IF ip = NoIp THEN "unknown" ELSE ip

XKeys == {ClientIp(ip) : ip \in IPs}

\* Math.ceil(a / b) for a >= 0
CeilDiv(a, b) == (a + b - 1) \div b

\* retryAfter: Math.ceil((limit.resetTime - now) / 1000)
RetryAfter(resetTime, t) == CeilDiv(resetTime - t, MS_PER_SEC)

\* history notion: key k has no window open at time t
XWindowOver(k, t) == ~rateLimitMap[k].has \/ t > rateLimitMap[k].resetTime

\* a limiter that never starts a new window for a known client
XResetDue_M(limit, t) == FALSE

\* if (now > limit.resetTime)
XResetDue(limit, t) == t > limit.resetTime

\* if (limit.count >= RATE_LIMIT_MAX_REQUESTS)
XOverLimit(limit) == limit.count >= RATE_LIMIT_MAX_REQUESTS

\* the response of the Express limiter; elapsed and exhausted are history: the
\* request met an entry whose window was over; whose count had reached the limit
XOutcome(k, limit, status, retryAfter) ==
    [ip |-> k, status |-> status, retryAfter |-> retryAfter,
     elapsed |-> limit.has /\ now > limit.resetTime,
     exhausted |-> limit.has /\ limit.count >= RATE_LIMIT_MAX_REQUESTS]

\* rateLimitMiddleware(req, res, next)
XRateLimit(ip) ==
    LET k == ClientIp(ip)
        limit == rateLimitMap[k]
        fresh == XWindowOver(k, now)
        seen == IF fresh THEN 1 ELSE xSeen[k] + 1
    IN  /\ seen <= MaxSeen
        /\ xSeen' = [xSeen EXCEPT ![k] = seen]
        /\ IF ~limit.has \/ XResetDue(limit, now)
           THEN /\ rateLimitMap' = [rateLimitMap EXCEPT
                        ![k] = [has |-> TRUE, count |-> 1,
                                resetTime |-> now + RATE_LIMIT_WINDOW]]
                /\ xResp' = XOutcome(k, limit, "next", NoRetryAfter)
                /\ xAdmitted' = [xAdmitted EXCEPT ![k] = IF fresh THEN 1 ELSE @ + 1]
           ELSE IF XOverLimit(limit)
           THEN /\ rateLimitMap' = rateLimitMap
                /\ xResp' = XOutcome(k, limit, "429", RetryAfter(limit.resetTime, now))
                /\ xAdmitted' = [xAdmitted EXCEPT ![k] = IF fresh THEN 0 ELSE @]
           ELSE /\ rateLimitMap' = [rateLimitMap EXCEPT ![k].count = @ + 1]
                /\ xResp' = XOutcome(k, limit, "next", NoRetryAfter)
                /\ xAdmitted' = [xAdmitted EXCEPT ![k] = IF fresh THEN 1 ELSE @ + 1]
        /\ UNCHANGED <<now, kv, wVars, cVars, sVars, uiVars, nVars>>

\* the statuses the validators and the handler of POST /api/chat answer with:
\* "400" is validateInput's for a body the validators reject; "429" is the
\* handler's when the completion API is rate limited
ChatOutcomes == {"200", "400", "404", "429", "500"}

\* a chat route that validates the body before it counts the request
ChatRoute_M == <<"validateInput", "rateLimitMiddleware", "handler">>

\* app.post('/api/chat', cors(corsOptionsPublic), rateLimitMiddleware, [...],
\* validateInput, async (req, res) => ...): the middleware that can answer, in
\* the order Express calls it
ChatRoute == <<"rateLimitMiddleware", "validateInput", "handler">>

\* the request comes to rateLimitMiddleware: nothing before it on the route
\* has answered instead of calling next()
ReachesLimiter(route, outcome) ==
    \E i \in 1..Len(route) :
        /\ route[i] = "rateLimitMiddleware"
        /\ \A j \in 1..(i - 1) : ~(route[j] = "validateInput" /\ outcome = "400")

\* POST /api/chat of a client whose request the validators and the handler
\* would answer with outcome
XChat(ip, outcome) ==
    IF ReachesLimiter(ChatRoute, outcome)
    THEN /\ XRateLimit(ip)
         /\ xFinal' = IF xResp'.status = "429" THEN "429" ELSE outcome
    ELSE /\ xFinal' = outcome
         /\ xResp' = XNone
         /\ UNCHANGED <<rateLimitMap, xSeen, xAdmitted>>
         /\ UNCHANGED <<now, kv, wVars, cVars, sVars, uiVars, nVars>>

XRequest == \E ip \in IPs, outcome \in ChatOutcomes : XChat(ip, outcome)

\* setInterval(() => { ... rateLimitMap.delete(ip) ... }, RATE_LIMIT_WINDOW)
XCleanup ==
    /\ \E k \in XKeys : rateLimitMap[k].has /\ now > rateLimitMap[k].resetTime
    /\ rateLimitMap' = [k \in XKeys |->
            IF rateLimitMap[k].has /\ now > rateLimitMap[k].resetTime
            THEN NoLimit ELSE rateLimitMap[k]]
    /\ xResp' = XNone
    /\ xFinal' = None
    /\ UNCHANGED <<now, xSeen, xAdmitted, kv, wVars, cVars, sVars, uiVars, nVars>>

\* the clock of the Express server advances
Tick ==
    /\ now < MaxTime
    /\ now' = now + 1
    /\ xResp' = XNone
    /\ xFinal' = None
    /\ UNCHANGED <<rateLimitMap, xSeen, xAdmitted, kv, wVars, cVars, sVars, uiVars, nVars>>

-----------------------------------------------------------------------------
(***************************************************************************)
(* The Worker's KV namespace (c.env.CHATBOT_CACHE).  Values are strings;   *)
(* a string is a sequence of one-character strings.  An entry holds the    *)
(* time left until it expires (ttl) and, as history, its age.              *)
(***************************************************************************)
\* what get() resolves to for a key that is absent or expired
Null == <<"null">>

NoKV == [has |-> FALSE, val |-> Null, ttl |-> 0, age |-> 0]

Digits == <<"0", "1", "2", "3", "4", "5", "6", "7", "8", "9">>

RECURSIVE StringOf(_)
\* String(n) for an integer n >= 0
StringOf(n) ==
    IF n < 10 THEN <<Digits[n + 1]>>
    ELSE StringOf(n \div 10) \o <<Digits[(n % 10) + 1]>>

DigitValue(ch) == (CHOOSE i \in 1..10 : Digits[i] = ch) - 1

RECURSIVE ParseInt(_)
\* parseInt(s) for a string of decimal digits
ParseInt(s) ==
    IF Len(s) = 1 THEN DigitValue(s[1])
    ELSE 10 * ParseInt(SubSeq(s, 1, Len(s) - 1)) + DigitValue(s[Len(s)])

\* a JavaScript value used as a condition: null and the empty string are falsy
Truthy(v) == v # Null /\ v # <<>>

\* the key holds a value that has not expired
KVLive(key) == kv[key].has /\ kv[key].ttl > 0

\* await c.env.CHATBOT_CACHE?.get(key)
KVGet(key) == IF KVLive(key) THEN kv[key].val ELSE Null

\* await c.env.CHATBOT_CACHE?.put(key, value, { expirationTtl: ttl })
KVPut(key, value, ttl) ==
    [kv EXCEPT ![key] = [has |-> TRUE, val |-> value, ttl |-> ttl, age |-> 0]]

\* await c.env.CHATBOT_CACHE?.delete(key)
KVDelete(key) == [kv EXCEPT ![key] = NoKV]

\* one unit of time passes in the store: entries whose ttl runs out are dropped
KVAged ==
    [k \in DOMAIN kv |->
        IF kv[k].has /\ kv[k].ttl > 1
        THEN [kv[k] EXCEPT !.ttl = @ - 1, !.age = @ + 1]
        ELSE NoKV]

-----------------------------------------------------------------------------
(***************************************************************************)
(* Worker (unnamed/part_002, backend/src/index.js): KV-backed limiter      *)
(***************************************************************************)
\* const ip = c.req.header('cf-connecting-ip') || 'unknown'
ConnectingIp(ip) == IF ip = NoIp THEN "unknown" ELSE ip

WKeys == {ConnectingIp(ip) : ip \in WIPs}

\* const rateLimitKey = `rate:${key}`  (the key is the ip; the route is no part of it)
RateLimitKey(key, route) == "rate:" \o key

RateKeys == {RateLimitKey(k, r) : k \in WKeys, r \in Routes}

\* the limit each route passes to rateLimitMiddleware(limit, window)
LimitOf(route) ==
    CASE route = "chat" -> LIMIT_CHAT
      [] route = "config" -> LIMIT_CONFIG
      [] route = "widget" -> LIMIT_WIDGET

\* const count = current ? parseInt(current) : 0
CountOf(current) == IF Truthy(current) THEN ParseInt(current) ELSE 0

\* if (count >= limit)
WOverLimit(count, limit) == count >= limit

\* a limiter that rejects when the counter store fails
AllowOnError_M == FALSE

\* catch (error) { ...; return true; // Allow on error }
AllowOnError == TRUE

WIdle == [pc |-> "idle", key |-> None, route |-> None, count |-> 0]

\* no response of the Worker's limiter in this step
WNone == [key |-> None, route |-> None, status |-> None,
          retryAfter |-> NoRetryAfter, storeFailed |-> FALSE, otherChanged |-> FALSE]

\* largest value the admission history counts to
AdmCap == LIMIT_CHAT + MaxInFlight + 1

\* the response of rateLimitMiddleware: next(), or c.json({ error }, 429);
\* storeFailed and otherChanged are history: a KV operation of the request threw;
\* the request changed the counter entry of another route class
WOutcome(key, route, allowed, failed, otherChanged) ==
    [key |-> key, route |-> route,
     status |-> IF allowed THEN "next" ELSE "429",
     retryAfter |-> NoRetryAfter,
     storeFailed |-> failed,
     otherChanged |-> otherChanged]

\* rateLimitMiddleware -> checkRateLimit, up to and including the counter read;
\* fail: the KV read throws
WArrive(r, ip, route, fail) ==
    LET key == ConnectingIp(ip)
        current == KVGet(RateLimitKey(key, route))
        count == CountOf(current)
    IN  /\ wReq[r].pc = "idle"
        /\ \A o \in 1..(r - 1) : wReq[o].pc # "idle"
        /\ IF fail
           THEN /\ wResp' = WOutcome(key, route, AllowOnError, TRUE, FALSE)
                /\ UNCHANGED wReq
           ELSE IF WOverLimit(count, LimitOf(route))
           THEN /\ wResp' = WOutcome(key, route, FALSE, FALSE, FALSE)
                /\ UNCHANGED wReq
           ELSE /\ wReq' = [wReq EXCEPT ![r] =
                        [pc |-> "put", key |-> key, route |-> route, count |-> count]]
                /\ wResp' = WNone
        /\ UNCHANGED <<now, kv, wAdmChat, xVars, cVars, sVars, uiVars, nVars>>

\* checkRateLimit from the counter write on, then the middleware's next();
\* fail: the KV write throws
WPut(r, fail) ==
    LET q == wReq[r]
        rk == RateLimitKey(q.key, q.route)
        chat == IF q.route = "chat" /\ ~fail THEN 1 ELSE 0
        newKv == IF fail THEN kv ELSE KVPut(rk, StringOf(q.count + 1), RL_WINDOW)
        other == \E route \in Routes \ {q.route} :
                    newKv[RateLimitKey(q.key, route)] # kv[RateLimitKey(q.key, route)]
    IN  /\ q.pc = "put"
        /\ wReq' = [wReq EXCEPT ![r] = WIdle]
        /\ kv' = newKv
        /\ wResp' = WOutcome(q.key, q.route, IF fail THEN AllowOnError ELSE TRUE,
                             fail, other)
        /\ wAdmChat' = [wAdmChat EXCEPT ![q.key] =
                IF KVLive(rk) THEN Sat(@ + chat, AdmCap) ELSE chat]
        /\ UNCHANGED <<now, xVars, cVars, sVars, uiVars, nVars>>

WRequest == \E r \in 1..MaxInFlight, ip \in WIPs, route \in Routes, fail \in BOOLEAN :
                WArrive(r, ip, route, fail)

WWrite == \E r \in 1..MaxInFlight, fail \in BOOLEAN : WPut(r, fail)

-----------------------------------------------------------------------------
(***************************************************************************)
(* Worker: the chatbots table, GET /public/chatbots/:id with its cache,    *)
(* PUT /api/chatbots/:id and DELETE /api/user/account                      *)
(***************************************************************************)
NoRow == [exists |-> FALSE, name |-> None, color |-> None,
          welcome_message |-> None, is_deployed |-> FALSE]

Rows == {[exists |-> TRUE, name |-> n, color |-> c, welcome_message |-> w,
          is_deployed |-> d] : n \in Names, c \in Colors, w \in Welcomes, d \in BOOLEAN}

\* a field of a JSON request body: defined with a value, or undefined
Opt(S) == {[def |-> TRUE, v |-> x] : x \in S} \cup {[def |-> FALSE, v |-> None]}

OptBool == {[def |-> TRUE, v |-> x] : x \in BOOLEAN} \cup {[def |-> FALSE, v |-> FALSE]}

\* const { name, color, welcomeMessage, isDeployed } = await c.req.json()
Bodies == [name : Opt(Names), color : {c \in Opt(Colors) : c.def},
           welcomeMessage : {w \in Opt(Welcomes) : w.def}, isDeployed : OptBool]

\* the body of a request whose update fails: the outcome does not depend on it
AnyBody == CHOOSE b \in Bodies : TRUE

\* an undefined property is left out of the update and the column keeps its value
Col(field, old) == IF field.def THEN field.v ELSE old

\* .update({ name, color, welcome_message: welcomeMessage, is_deployed: isDeployed })
UpdateRow(row, body) ==
    [exists |-> TRUE,
     name |-> Col(body.name, row.name),
     color |-> Col(body.color, row.color),
     welcome_message |-> Col(body.welcomeMessage, row.welcome_message),
     is_deployed |-> Col(body.isDeployed, row.is_deployed)]

\* const cacheKey = `chatbot:${chatbotId}`
CacheKey(chatbotId) == "chatbot:" \o chatbotId

CacheKeys == {CacheKey(id) : id \in ChatbotIds}

\* no data: getFromCache returned null, or the body of a 404
NoData == [name |-> None, color |-> None, welcomeMessage |-> None]

\* data = { name: dbData.name, color: dbData.color, welcomeMessage: dbData.welcome_message }
PublicConfig(dbData) ==
    [name |-> dbData.name, color |-> dbData.color,
     welcomeMessage |-> dbData.welcome_message]

\* JSON.stringify(value) of a config: its three members in order
JSONStringify(value) == <<value.name, value.color, value.welcomeMessage>>

\* JSON.parse(cached)
JSONParse(str) == [name |-> str[1], color |-> str[2], welcomeMessage |-> str[3]]

\* cache utilities whose errors reach the handler's catch block
CacheErrorsThrow_M == TRUE

\* catch (error) { console.warn('[CACHE_READ_ERROR]', ...); return null; } and
\* catch (error) { console.warn('[CACHE_WRITE_ERROR]', ...); }: nothing is rethrown
CacheErrorsThrow == FALSE

\* a cache read that never finds an entry
GetFromCache_M(key, fail) == NoData

\* getFromCache(c, key); fail: the KV read throws
GetFromCache(key, fail) ==
    IF fail THEN NoData
    ELSE LET cached == KVGet(key)
         IN  IF Truthy(cached) THEN JSONParse(cached) ELSE NoData

\* setCache(c, key, value, ttl); fail: the KV write throws
SetCache(key, value, ttl, fail) ==
    IF fail THEN kv ELSE KVPut(key, JSONStringify(value), ttl)

\* a handler that caches for longer than the configured ttl
ConfigTtl_M == CONFIG_TTL_60 + CONFIG_TTL_300

\* the ttl GET /public/chatbots/:id passes to setCache
ConfigTtl == IF variant = "index" THEN CONFIG_TTL_300 ELSE CONFIG_TTL_60

\* a handler that does not look at is_deployed
NotFound_M(error, dbData) == error \/ ~dbData.exists

\* if (error || !dbData || !dbData.is_deployed)
NotFound(error, dbData) == error \/ ~dbData.exists \/ ~dbData.is_deployed

\* whether PUT /api/chatbots/:id deletes the cache entry after the update
PutInvalidates == variant = "part_002"

\* history notion: what the source of truth holds as a chatbot's public view
SourceView(row) ==
    IF row.exists /\ row.is_deployed
    THEN [name |-> row.name, color |-> row.color, welcomeMessage |-> row.welcome_message]
    ELSE NoData

\* history notion: the data a live cache entry of the key holds
LiveData(key) ==
    IF kv[key].has /\ kv[key].ttl > 0
    THEN [name |-> kv[key].val[1], color |-> kv[key].val[2],
          welcomeMessage |-> kv[key].val[3]]
    ELSE NoData

\* history notion: the ttl the deployed snapshot is configured with
StatedTtl == IF variant = "index" THEN CONFIG_TTL_300 ELSE CONFIG_TTL_60

\* the longest time the histories count to
AgeCap == CONFIG_TTL_300 + 1

\* a request slot.  History: mustHit, the cache read of the request succeeded on a
\* live entry; qFound, qView, the query met a deployed row and its public fields;
\* afterLast, a get of the same chatbot completed before the request began and
\* none has completed, nor an invalidate happened, since
GIdle == [pc |-> "idle", id |-> None, data |-> NoData, mustHit |-> FALSE,
          qFound |-> FALSE, qView |-> NoData, afterLast |-> FALSE]

\* no get returns in this step
GNone == [id |-> None, status |-> None, body |-> NoData,
          mustHit |-> FALSE, expected |-> NoData,
          queried |-> FALSE, qFound |-> FALSE, qView |-> NoData,
          deployedNow |-> FALSE, staleAge |-> 0, hitAge |-> 0, repeat |-> "none"]

\* no update returns in this step
PNone == [id |-> None, status |-> None, committed |-> FALSE,
          invalidated |-> FALSE, entryGone |-> FALSE]

NoLast == [has |-> FALSE, status |-> None, body |-> NoData, age |-> 0]

\* the response of a get and, as history, what it rested on:
\*   expected: the data of the live entry the cache read met (NoData: none)
\*   queried: the chatbots table was queried
\*   deployedNow: the chatbot is deployed in the table when the response is sent
\*   staleAge: time since the source changed, if the response differs from it
\*   hitAge: age of the cache entry the response was read from
\*   repeat: how the response compares to the preceding get's, if that completed
\*     less than the ttl ago with no invalidate in between
GOutcome(q, status, body, expected, queried) ==
    LET last == lastGet[q.id]
    IN  [id |-> q.id, status |-> status, body |-> body,
         mustHit |-> q.mustHit, expected |-> expected,
         queried |-> queried, qFound |-> q.qFound, qView |-> q.qView,
         deployedNow |-> db[q.id].exists /\ db[q.id].is_deployed,
         staleAge |-> IF status = "200" /\ body # SourceView(db[q.id])
                      THEN srcAge[q.id] ELSE 0,
         hitAge |-> IF queried THEN 0 ELSE kv[CacheKey(q.id)].age,
         repeat |-> IF q.afterLast /\ last.has /\ last.age < StatedTtl
                    THEN (IF last.status = status /\ last.body = body
                          THEN "same" ELSE "diff")
                    ELSE "none"]

\* the request in slot g returns: its response is sent and the slot is freed
GReturn(g, q, status, body, expected, queried) ==
    /\ gResp' = GOutcome(q, status, body, expected, queried)
    /\ lastGet' = [lastGet EXCEPT ![q.id] =
            [has |-> TRUE, status |-> status, body |-> body, age |-> 0]]
    /\ gReq' = [o \in DOMAIN gReq |->
            IF o = g THEN GIdle
            ELSE IF gReq[o].id = q.id THEN [gReq[o] EXCEPT !.afterLast = FALSE]
            ELSE gReq[o]]

\* GET /public/chatbots/:id up to the cache read; a hit returns the cached data
GCacheRead(g, chatbotId, fail) ==
    LET key == CacheKey(chatbotId)
        data == GetFromCache(key, fail)
        q == [pc |-> "query", id |-> chatbotId, data |-> data,
              mustHit |-> kv[key].has /\ kv[key].ttl > 0 /\ ~fail,
              qFound |-> FALSE, qView |-> NoData,
              afterLast |-> lastGet[chatbotId].has]
    IN  /\ gReq[g].pc = "idle"
        /\ \A o \in 1..(g - 1) : gReq[o].pc # "idle"
        /\ IF fail /\ CacheErrorsThrow
           THEN GReturn(g, q, "500", NoData, NoData, FALSE)
           ELSE IF data # NoData
           THEN GReturn(g, q, "200", data, LiveData(key), FALSE)
           ELSE /\ gReq' = [gReq EXCEPT ![g] = q]
                /\ gResp' = GNone
                /\ UNCHANGED lastGet
        /\ pResp' = PNone
        /\ UNCHANGED <<now, kv, xVars, wVars, variant, db, pReq, srcAge, sVars, uiVars, nVars>>

\* GET /public/chatbots/:id: the query of the chatbots table; error: it fails
GQuery(g, error) ==
    /\ gReq[g].pc = "query"
    /\ LET dbData == db[gReq[g].id]
           q == [gReq[g] EXCEPT
                   !.qFound = ~error /\ dbData.exists /\ dbData.is_deployed,
                   !.qView = IF error THEN NoData ELSE SourceView(dbData)]
       IN  IF NotFound(error, dbData)
           THEN GReturn(g, q, "404", NoData, NoData, TRUE)
           ELSE /\ gReq' = [gReq EXCEPT ![g] =
                        [q EXCEPT !.pc = "store", !.data = PublicConfig(dbData)]]
                /\ gResp' = GNone
                /\ UNCHANGED lastGet
    /\ pResp' = PNone
    /\ UNCHANGED <<now, kv, xVars, wVars, variant, db, pReq, srcAge, sVars, uiVars, nVars>>

\* GET /public/chatbots/:id: setCache, then return c.json(data)
GStore(g, fail) ==
    LET q == gReq[g]
    IN  /\ q.pc = "store"
        /\ kv' = SetCache(CacheKey(q.id), q.data, ConfigTtl, fail)
        /\ IF fail /\ CacheErrorsThrow
           THEN GReturn(g, q, "500", NoData, NoData, TRUE)
           ELSE GReturn(g, q, "200", q.data, NoData, TRUE)
        /\ pResp' = PNone
        /\ UNCHANGED <<now, xVars, wVars, variant, db, pReq, srcAge, sVars, uiVars, nVars>>

PIdle == [pc |-> "idle", id |-> None]

\* history: the time since the latest change of each chatbot's public view
Changed(newDb) ==
    [id \in ChatbotIds |->
        IF SourceView(newDb[id]) # SourceView(db[id]) THEN 0 ELSE srcAge[id]]

\* PUT /api/chatbots/:id up to the update of the row; error: the update fails,
\* or .eq('user_id', user.userId) matches no row and .single() reports it
PUpdate(p, chatbotId, body, error) ==
    LET row == db[chatbotId]
        failed == error \/ ~row.exists
        newDb == [db EXCEPT ![chatbotId] = UpdateRow(row, body)]
        gone == ~KVLive(CacheKey(chatbotId))
    IN  /\ pReq[p].pc = "idle"
        /\ \A o \in 1..(p - 1) : pReq[o].pc # "idle"
        /\ IF failed
           THEN /\ pResp' = [id |-> chatbotId, status |-> "500", committed |-> FALSE,
                             invalidated |-> FALSE, entryGone |-> gone]
                /\ UNCHANGED <<db, srcAge, pReq>>
           ELSE /\ db' = newDb
                /\ srcAge' = Changed(newDb)
                /\ IF PutInvalidates
                   THEN /\ pReq' = [pReq EXCEPT ![p] =
                                [pc |-> "invalidate", id |-> chatbotId]]
                        /\ pResp' = PNone
                   ELSE /\ pResp' = [id |-> chatbotId, status |-> "200",
                                     committed |-> TRUE, invalidated |-> FALSE,
                                     entryGone |-> gone]
                        /\ UNCHANGED pReq
        /\ gResp' = GNone
        /\ UNCHANGED <<now, kv, xVars, wVars, variant, gReq, lastGet, sVars, uiVars, nVars>>

\* PUT /api/chatbots/:id: CHATBOT_CACHE.delete(cacheKey), then return c.json(data);
\* fail: the delete throws and the handler answers 500
PInvalidate(p, fail) ==
    LET q == pReq[p]
    IN  /\ q.pc = "invalidate"
        /\ pReq' = [pReq EXCEPT ![p] = PIdle]
        /\ IF fail
           THEN /\ pResp' = [id |-> q.id, status |-> "500", committed |-> TRUE,
                             invalidated |-> FALSE,
                             entryGone |-> ~KVLive(CacheKey(q.id))]
                /\ UNCHANGED <<kv, lastGet, gReq>>
           ELSE /\ kv' = KVDelete(CacheKey(q.id))
                /\ pResp' = [id |-> q.id, status |-> "200", committed |-> TRUE,
                             invalidated |-> TRUE, entryGone |-> TRUE]
                /\ lastGet' = [lastGet EXCEPT ![q.id] = NoLast]
                /\ gReq' = [o \in DOMAIN gReq |->
                        IF gReq[o].id = q.id THEN [gReq[o] EXCEPT !.afterLast = FALSE]
                        ELSE gReq[o]]
        /\ gResp' = GNone
        /\ UNCHANGED <<now, xVars, wVars, variant, db, srcAge, sVars, uiVars, nVars>>

\* DELETE /api/user/account: supabase.from('chatbots').delete().eq('user_id', ...)
AccountDelete ==
    LET newDb == [id \in ChatbotIds |-> NoRow]
    IN  /\ \E id \in ChatbotIds : db[id].exists
        /\ db' = newDb
        /\ srcAge' = Changed(newDb)
        /\ gResp' = GNone
        /\ pResp' = PNone
        /\ UNCHANGED <<now, kv, xVars, wVars, variant, gReq, pReq, lastGet, sVars, uiVars, nVars>>

GetConfig ==
    \/ \E g \in 1..MaxGets, id \in ChatbotIds, fail \in BOOLEAN : GCacheRead(g, id, fail)
    \/ \E g \in 1..MaxGets, error \in BOOLEAN : GQuery(g, error)
    \/ \E g \in 1..MaxGets, fail \in BOOLEAN : GStore(g, fail)

PutChatbot ==
    \/ \E p \in 1..MaxPuts, id \in ChatbotIds, error \in BOOLEAN :
          \E body \in (IF error THEN {AnyBody} ELSE Bodies) : PUpdate(p, id, body, error)
    \/ \E p \in 1..MaxPuts, fail \in BOOLEAN : PInvalidate(p, fail)

\* one unit of time passes at the Worker: KV entries age and expire
KTick ==
    /\ kv' = KVAged
    /\ wAdmChat' = [k \in WKeys |->
            IF \E r \in Routes : KVAged[RateLimitKey(k, r)].has
            THEN wAdmChat[k] ELSE 0]
    /\ lastGet' = [id \in ChatbotIds |->
            IF lastGet[id].has /\ lastGet[id].age + 1 < StatedTtl
            THEN [lastGet[id] EXCEPT !.age = @ + 1] ELSE NoLast]
    /\ srcAge' = [id \in ChatbotIds |-> Sat(srcAge[id] + 1, AgeCap)]
    /\ wResp' = WNone
    /\ gResp' = GNone
    /\ pResp' = PNone
    /\ UNCHANGED <<now, xVars, wReq, variant, db, gReq, pReq, sVars, uiVars, nVars>>

-----------------------------------------------------------------------------
(***************************************************************************)
(* Worker (unnamed/part_002): chat sessions and the conversation log.      *)
(* POST /api/chat writes the tables chat_sessions and conversations,       *)
(* POST /api/chat/feedback ends a session.  A session id is a pair: one    *)
(* the Worker generated, <<"session", n>>, or one a client made up.        *)
(***************************************************************************)
\* no sessionId member in a request or response body
NoSid == <<>>

\* `session_${Date.now()}_${Math.random().toString(36).substr(2, 9)}`: the n-th
\* id generated (taken to differ from every id generated or made up before)
GenSid(n) == <<"session", n>>

\* a session id in use before the first step, or one a client made up
OldSid == <<"client", 1>>

\* session ids a client may send: the generated ones and the old one
SessIds == {OldSid} \cup {GenSid(n) : n \in 1..MaxGen}

\* chatbots a chat request may name
ChatBots == {"cb1"}

\* a chatbot that owns sessions and is named by no request
OtherChatbot == "cb2"

\* satisfaction_rating is NULL
NoRating == 0 - 1

\* ratings a feedback request may carry, around the edges of 0..5; None: no member
RatingsSent == {0 - 1, 0, MIN_STORED_RATING, MAX_RATING, MAX_RATING + 1}

\* session_id has no row in chat_sessions
NoSession == [rows |-> 0, chatbot_id |-> None, ended |-> FALSE,
              rating |-> NoRating, message_count |-> 0]

\* the fixed answer of a chatbot without documents
Apology == "I apologize, but I don't have enough information"

\* the answer the completion API generated
Answer == "data.choices[0].message.content"

\* a plain insert on a table without the UNIQUE constraint on session_id
UpsertSession_M(row, chatbotId) ==
    IF row.rows = 0
    THEN [NoSession EXCEPT !.rows = 1, !.chatbot_id = chatbotId]
    ELSE [row EXCEPT !.rows = @ + 1]

\* .upsert({ chatbot_id, session_id, ip_address, user_agent, started_at },
\*         { onConflict: 'session_id' }) on session_id VARCHAR(255) NOT NULL UNIQUE:
\* what becomes of the rows of that session_id
UpsertSession(row, chatbotId) ==
    IF row.rows = 0
    THEN [NoSession EXCEPT !.rows = 1, !.chatbot_id = chatbotId]
    ELSE [row EXCEPT !.chatbot_id = chatbotId]

\* UPDATE chat_sessions SET message_count = message_count + 1 WHERE session_id = ...
IncrementSessionMessages(row) ==
    IF row.rows = 0 THEN row ELSE [row EXCEPT !.message_count = @ + 1]

\* a handler that stores every rating it accepts
StoresRating_M(rating) == rating >= 0 /\ rating <= MAX_RATING

\* if (rating >= 1 && rating <= 5)
StoresRating(rating) == rating >= MIN_STORED_RATING /\ rating <= MAX_RATING

\* if (!sessionId || rating < 0 || rating > 5)
InvalidFeedback(sessionId, rating) ==
    sessionId = NoSid \/ rating < 0 \/ rating > MAX_RATING

\* .update(updateData).eq('session_id', sessionId)
EndSessionUpdate(row, rating) ==
    IF row.rows = 0 THEN row
    ELSE [row EXCEPT !.ended = TRUE,
                     !.rating = IF StoresRating(rating) THEN rating ELSE @]

\* const currentSessionId = sessionId || `session_${Date.now()}_...`
CurrentSessionId(sessionId, n) == IF sessionId # NoSid THEN sessionId ELSE GenSid(n)

\* a handler that gives up when a write to the store fails
AbortOnWriteError_M == TRUE

\* if (sessionError) { console.error(...) }: the error is logged, nothing else
AbortOnWriteError == FALSE

\* history notion: what a supplied session id resolves to for a chatbot
Candidate(sessionId, chatbotId) ==
    IF sessionId = NoSid THEN "none"
    ELSE IF sess[sessionId].rows = 0 THEN "unknown"
    ELSE IF sess[sessionId].chatbot_id # chatbotId THEN "foreign"
    ELSE IF sess[sessionId].ended THEN "ended"
    ELSE "resumable"

\* a request slot.  sid: currentSessionId; noDocs: the chatbot has no document.
\* History: supplied, the sessionId of the request body; cand, what it resolved
\* to when the request arrived
CIdle == [pc |-> "idle", chatbotId |-> None, sid |-> NoSid, supplied |-> NoSid,
          cand |-> None, noDocs |-> FALSE]

\* the slot of a request that has returned; a slot holds one request
CDone == [CIdle EXCEPT !.pc = "done"]

\* no chat response in this step.  History: supplied, cand and noDocs of the
\* request; incremented, its increment of message_count ran; aiFailed, the
\* completion API gave no answer
CNone == [status |-> None, sessionId |-> NoSid, response |-> None,
          supplied |-> NoSid, cand |-> None, noDocs |-> FALSE,
          incremented |-> FALSE, aiFailed |-> FALSE]

\* no feedback response in this step
FNone == [status |-> None, sessionId |-> NoSid, rating |-> NoRating,
          existed |-> FALSE, ratingBefore |-> NoRating]

\* the request in slot r returns: c.json({ response, sessionId }), or the 500 of
\* the catch block
CReturn(r, q, status, response, incremented, aiFailed) ==
    /\ cResp' = [status |-> status,
                 sessionId |-> IF status = "200" THEN q.sid ELSE NoSid,
                 response |-> response, supplied |-> q.supplied, cand |-> q.cand,
                 noDocs |-> q.noDocs,
                 incremented |-> incremented, aiFailed |-> aiFailed]
    /\ chatReq' = [chatReq EXCEPT ![r] = CDone]

\* session ids a client can send by now: it cannot guess one not yet generated
Known == {OldSid} \cup {GenSid(n) : n \in 1..nextGen}

\* POST /api/chat up to the upsert of the chat_sessions row.  valid: chatbotId
\* and message are there and the message is not too long; fail: the upsert
\* returns an error
CArrive(r, chatbotId, sessionId, valid, fail) ==
    /\ chatReq[r].pc = "idle"
    /\ \A o \in 1..(r - 1) : chatReq[o].pc # "idle"
    /\ sessionId \in Known \cup {NoSid}
    /\ sessionId = NoSid => nextGen < MaxGen
    /\ IF ~valid
       THEN /\ cResp' = [CNone EXCEPT !.status = "400"]
            /\ UNCHANGED <<chatReq, nextGen, sess, storeErr>>
       ELSE LET q == [CIdle EXCEPT !.pc = "user", !.chatbotId = chatbotId,
                                   !.sid = CurrentSessionId(sessionId, nextGen + 1),
                                   !.supplied = sessionId,
                                   !.cand = Candidate(sessionId, chatbotId)]
            IN  /\ nextGen' = IF sessionId = NoSid THEN nextGen + 1 ELSE nextGen
                /\ sess' = IF fail THEN sess
                           ELSE [sess EXCEPT ![q.sid] = UpsertSession(@, chatbotId)]
                /\ fail => storeErr < MaxStoreErrors
                /\ storeErr' = IF fail THEN storeErr + 1 ELSE storeErr
                /\ IF fail /\ AbortOnWriteError
                   THEN CReturn(r, q, "500", None, FALSE, FALSE)
                   ELSE /\ chatReq' = [chatReq EXCEPT ![r] = q]
                        /\ cResp' = CNone
    /\ fResp' = FNone
    /\ UNCHANGED <<conv, arrivals>>
    /\ UNCHANGED <<now, kv, xVars, wVars, cVars, uiVars, nVars>>

\* POST /api/chat: the insert of the user's message into conversations, then the
\* query of documents and the call of the completion API.  fail: the insert
\* returns an error; documents: the chatbot has some; aiOk: the API answers
\* with a choice
CUserMessage(r, fail, documents, aiOk) ==
    /\ chatReq[r].pc = "user"
    /\ LET q == chatReq[r]
       IN  /\ conv' = IF fail THEN conv ELSE [conv EXCEPT ![q.sid].user = @ + 1]
           /\ fail => storeErr < MaxStoreErrors
           /\ storeErr' = IF fail THEN storeErr + 1 ELSE storeErr
           /\ IF fail /\ AbortOnWriteError
              THEN CReturn(r, q, "500", None, FALSE, FALSE)
              ELSE IF ~documents
              THEN /\ chatReq' = [chatReq EXCEPT ![r] = [q EXCEPT !.pc = "bot", !.noDocs = TRUE]]
                   /\ cResp' = CNone
              ELSE IF ~aiOk
              THEN CReturn(r, q, "500", None, FALSE, TRUE)
              ELSE /\ chatReq' = [chatReq EXCEPT ![r] = [q EXCEPT !.pc = "bot"]]
                   /\ cResp' = CNone
    /\ fResp' = FNone
    /\ UNCHANGED <<sess, nextGen, arrivals>>
    /\ UNCHANGED <<now, kv, xVars, wVars, cVars, uiVars, nVars>>

\* POST /api/chat: the insert of the bot's response into conversations; without
\* documents the handler then returns the apology
CBotMessage(r, fail) ==
    /\ chatReq[r].pc = "bot"
    /\ LET q == chatReq[r]
       IN  /\ conv' = IF fail THEN conv ELSE [conv EXCEPT ![q.sid].bot = @ + 1]
           /\ fail => storeErr < MaxStoreErrors
           /\ storeErr' = IF fail THEN storeErr + 1 ELSE storeErr
           /\ IF fail /\ AbortOnWriteError
              THEN CReturn(r, q, "500", None, FALSE, FALSE)
              ELSE IF q.noDocs
              THEN CReturn(r, q, "200", Apology, FALSE, FALSE)
              ELSE /\ chatReq' = [chatReq EXCEPT ![r] = [q EXCEPT !.pc = "increment"]]
                   /\ cResp' = CNone
    /\ fResp' = FNone
    /\ UNCHANGED <<sess, nextGen, arrivals>>
    /\ UNCHANGED <<now, kv, xVars, wVars, cVars, uiVars, nVars>>

\* POST /api/chat: supabase.rpc('increment_session_messages'), then the response
CIncrement(r, fail) ==
    /\ chatReq[r].pc = "increment"
    /\ LET q == chatReq[r]
       IN  /\ sess' = IF fail THEN sess
                      ELSE [sess EXCEPT ![q.sid] = IncrementSessionMessages(@)]
           /\ fail => storeErr < MaxStoreErrors
           /\ storeErr' = IF fail THEN storeErr + 1 ELSE storeErr
           /\ IF fail /\ AbortOnWriteError
              THEN CReturn(r, q, "500", None, FALSE, FALSE)
              ELSE CReturn(r, q, "200", Answer, ~fail, FALSE)
    /\ fResp' = FNone
    /\ UNCHANGED <<conv, nextGen, arrivals>>
    /\ UNCHANGED <<now, kv, xVars, wVars, cVars, uiVars, nVars>>

\* POST /api/chat/feedback, its response; error: the update returns an error.
\* History: existed and ratingBefore, the session as the request found it
FeedbackResponse(sessionId, rating, error) ==
    [status |-> IF InvalidFeedback(sessionId, rating) THEN "400"
                ELSE IF error THEN "500" ELSE "200",
     sessionId |-> sessionId, rating |-> rating,
     existed |-> sessionId # NoSid /\ sess[sessionId].rows > 0,
     ratingBefore |-> IF sessionId = NoSid THEN NoRating ELSE sess[sessionId].rating]

\* POST /api/chat/feedback, what it makes of chat_sessions
Feedback(sessionId, rating, error) ==
    IF InvalidFeedback(sessionId, rating) \/ error THEN sess
    ELSE [sess EXCEPT ![sessionId] = EndSessionUpdate(@, rating)]

\* POST /api/chat/feedback from any client
CFeedback(sessionId, rating, error) ==
    /\ sess' = Feedback(sessionId, rating, error)
    /\ fResp' = FeedbackResponse(sessionId, rating, error)
    /\ cResp' = CNone
    /\ UNCHANGED <<conv, nextGen, chatReq, storeErr, arrivals>>
    /\ UNCHANGED <<now, kv, xVars, wVars, cVars, uiVars, nVars>>

Chat ==
    \/ \E r \in 1..MaxChats, chatbotId \in ChatBots, sessionId \in SessIds \cup {NoSid},
          valid \in BOOLEAN, fail \in BOOLEAN : CArrive(r, chatbotId, sessionId, valid, fail)
    \/ \E r \in 1..MaxChats, fail \in BOOLEAN, documents \in BOOLEAN, aiOk \in BOOLEAN :
          CUserMessage(r, fail, documents, aiOk)
    \/ \E r \in 1..MaxChats, fail \in BOOLEAN : CBotMessage(r, fail)
    \/ \E r \in 1..MaxChats, fail \in BOOLEAN : CIncrement(r, fail)

ChatFeedback ==
    \E sessionId \in SessIds \cup {NoSid}, rating \in RatingsSent, error \in BOOLEAN :
        CFeedback(sessionId, rating, error)

-----------------------------------------------------------------------------
(***************************************************************************)
(* The widget served by GET /widget.js (unnamed/part_002), in one browser  *)
(* tab, talking to the Worker.  Time is kept as the age of the persisted   *)
(* activity stamp and the time left until the periodic check runs.  The    *)
(* Worker handles a request of the widget in one step, without store       *)
(* errors.                                                                 *)
(***************************************************************************)
\* localStorage holds no sessionTimeKey
NoAge == 0 - 1

\* config.chatbotId
WidgetChatbot == "cb1"

\* no request of sendMessage in flight.  on: one is; alive: the page that sent it
\* is still there; typing: its typing indicator is still in messagesContainer;
\* sent: the sessionId of its body; history: stale, the persisted stamp was
\* sessionTimeout old or older when it was sent
NoPending == [on |-> FALSE, alive |-> FALSE, typing |-> FALSE, sent |-> NoSid,
              stale |-> FALSE]

\* the widget's state when the script has run in a browser without localStorage.
\* disabled: input.disabled and sendButton.disabled; inFlight: the chat requests
\* of this page that await their response, counted up to 2
WgFresh == [currentSessionId |-> NoSid, lsId |-> NoSid, lsAge |-> NoAge,
            sessionExpired |-> FALSE, expirationShown |-> FALSE,
            welcomeShown |-> FALSE, chatWindow |-> "none", rating |-> "none",
            children |-> 0, pending |-> NoPending,
            untilCheck |-> CHECK_PERIOD, resetDue |-> FALSE,
            disabled |-> FALSE, inFlight |-> 0]

\* no response handled by sendMessage in this step
UNone == [status |-> None, sent |-> NoSid, got |-> NoSid, stale |-> FALSE]

\* messagesContainer.children.length, counted up to 2
Children(n) == IF n > 2 THEN 2 ELSE n

\* function isSessionValid()
IsSessionValid(w) ==
    IF w.lsAge = NoAge THEN FALSE ELSE w.lsAge < SESSION_TIMEOUT

\* body: JSON.stringify({ chatbotId, message, sessionId: currentSessionId })
SentSessionId(w) == w.currentSessionId

\* a widget that forgets the session id but leaves the persisted keys
ClearSession_M(w) == [w EXCEPT !.currentSessionId = NoSid]

\* localStorage.removeItem(sessionKey); localStorage.removeItem(sessionTimeKey);
\* currentSessionId = null
ClearSession(w) ==
    [w EXCEPT !.currentSessionId = NoSid, !.lsId = NoSid, !.lsAge = NoAge]

\* a widget that leaves its input and its send button enabled
DisableInput_M(w) == w

\* input.disabled = true; sendButton.disabled = true
DisableInput(w) == [w EXCEPT !.disabled = TRUE]

\* a widget whose finally block leaves the controls as they are
EnableInput_M(w) == w

\* finally { input.disabled = false; sendButton.disabled = false; ... }
EnableInput(w) == [w EXCEPT !.disabled = FALSE]

\* sendMessage(text) up to the fetch: the user's message and the typing indicator
\* are shown, the input is disabled.  The browser delivers no click and no key
\* to a disabled control.  A request of an earlier page of the same browser
\* that is still on its way keeps the one place for requests
WgSend ==
    /\ wg.chatWindow = "flex" /\ wg.rating = "none"
    /\ ~wg.disabled
    /\ ~(wg.pending.on /\ ~wg.pending.alive)
    /\ arrivals < MaxArrivals
    /\ SentSessionId(wg) = NoSid => nextGen < MaxGen
    /\ arrivals' = arrivals + 1
    /\ wg' = [DisableInput(wg) EXCEPT
                    !.children = Children(@ + 2),
                    !.inFlight = Sat(@ + 1, 2),
                    !.pending = [on |-> TRUE, alive |-> TRUE, typing |-> TRUE,
                                 sent |-> SentSessionId(wg),
                                 stale |-> wg.lsAge # NoAge /\ ~IsSessionValid(wg)]]
    /\ uResp' = UNone
    /\ cResp' = CNone
    /\ fResp' = FNone
    /\ UNCHANGED <<sess, conv, nextGen, chatReq, storeErr, fbSent>>
    /\ UNCHANGED <<now, kv, xVars, wVars, cVars, nVars>>

\* what POST /api/chat makes of chat_sessions for a request, store errors apart
ChatSessions(sid, outcome) ==
    IF outcome = "answer"
    THEN [sess EXCEPT ![sid] = IncrementSessionMessages(UpsertSession(@, WidgetChatbot))]
    ELSE [sess EXCEPT ![sid] = UpsertSession(@, WidgetChatbot)]

\* what POST /api/chat makes of conversations for a request, store errors apart
ChatConversations(sid, outcome) ==
    IF outcome = "aiFailed"
    THEN [conv EXCEPT ![sid].user = @ + 1]
    ELSE [conv EXCEPT ![sid].user = @ + 1, ![sid].bot = @ + 1]

\* a widget that does not keep the session id of a response
HandleResponse_M(w, sessionId) ==
    [EnableInput(w) EXCEPT !.pending = NoPending, !.inFlight = @ - 1]

\* the rest of sendMessage: the response arrives.  The typing indicator makes
\* way for the answer or the error message; a response with a sessionId is
\* stored in currentSessionId and localStorage
HandleResponse(w, sessionId) ==
    LET shown == [EnableInput(w) EXCEPT
                        !.children = IF w.pending.typing THEN @ ELSE Children(@ + 1),
                        !.pending = NoPending,
                        !.inFlight = @ - 1]
    IN  IF sessionId # NoSid
        THEN [shown EXCEPT !.currentSessionId = sessionId, !.lsId = sessionId,
                           !.lsAge = 0]
        ELSE shown

\* the Worker handles the widget's chat request and sendMessage handles the
\* response.  outcome: "rejected", a 429 or 400 before the handler writes;
\* "answer"; "aiFailed", the 500 of a failed completion.  The widget's chatbot
\* has documents
WgReceive(outcome) ==
    LET q == wg.pending
        sid == CurrentSessionId(q.sent, nextGen + 1)
        written == outcome # "rejected"
        ok == outcome = "answer"
        got == IF ok THEN sid ELSE NoSid
    IN  /\ q.on
        /\ nextGen' = IF written /\ q.sent = NoSid THEN nextGen + 1 ELSE nextGen
        /\ sess' = IF written THEN ChatSessions(sid, outcome) ELSE sess
        /\ conv' = IF written THEN ChatConversations(sid, outcome) ELSE conv
        /\ cResp' = CNone
        /\ IF q.alive
           THEN /\ wg' = HandleResponse(wg, got)
                /\ uResp' = [status |-> IF ok THEN "200" ELSE "error", sent |-> q.sent,
                             got |-> got, stale |-> q.stale]
           ELSE /\ wg' = [wg EXCEPT !.pending = NoPending]
                /\ uResp' = UNone
        /\ fResp' = FNone
        /\ UNCHANGED <<chatReq, storeErr, arrivals, fbSent>>
        /\ UNCHANGED <<now, kv, xVars, wVars, cVars, nVars>>

\* setInterval(() => { ... }, 60000): the periodic check of the session
WgInterval ==
    /\ wg.untilCheck = 0
    /\ wg' = IF wg.currentSessionId # NoSid /\ ~IsSessionValid(wg) /\ ~wg.expirationShown
             THEN [ClearSession(wg) EXCEPT !.children = Children(@ + 1),
                                           !.expirationShown = TRUE,
                                           !.untilCheck = CHECK_PERIOD]
             ELSE [wg EXCEPT !.untilCheck = CHECK_PERIOD]
    /\ uResp' = UNone
    /\ cResp' = CNone
    /\ fResp' = FNone
    /\ UNCHANGED <<sess, conv, nextGen, chatReq, storeErr, arrivals, fbSent>>
    /\ UNCHANGED <<now, kv, xVars, wVars, cVars, nVars>>

\* function showChat(), called by the toggle button while the window is hidden
ShowChat(w) ==
    LET a == IF w.rating = "flex"
             THEN [w EXCEPT !.rating = "none", !.children = 0, !.welcomeShown = FALSE,
                            !.sessionExpired = FALSE, !.expirationShown = FALSE,
                            !.pending.typing = FALSE]
             ELSE w
        b == IF a.currentSessionId = NoSid THEN [a EXCEPT !.welcomeShown = FALSE] ELSE a
        c == [b EXCEPT !.chatWindow = "flex"]
    IN  IF c.welcomeShown THEN c
        ELSE IF c.sessionExpired /\ ~c.expirationShown
        THEN [ClearSession(c) EXCEPT !.children = Children(@ + 1),
                                     !.expirationShown = TRUE, !.welcomeShown = TRUE]
        ELSE [c EXCEPT !.children = Children(@ + 1), !.welcomeShown = TRUE]

WgShow ==
    /\ wg.chatWindow # "flex"
    /\ wg' = ShowChat(wg)
    /\ uResp' = UNone
    /\ cResp' = CNone
    /\ fResp' = FNone
    /\ UNCHANGED <<sess, conv, nextGen, chatReq, storeErr, arrivals, fbSent>>
    /\ UNCHANGED <<now, kv, xVars, wVars, cVars, nVars>>

\* function hideChat(), called by the toggle button and the minimize button
WgHide ==
    /\ wg.chatWindow = "flex"
    /\ wg' = [wg EXCEPT !.chatWindow = "none"]
    /\ uResp' = UNone
    /\ cResp' = CNone
    /\ fResp' = FNone
    /\ UNCHANGED <<sess, conv, nextGen, chatReq, storeErr, arrivals, fbSent>>
    /\ UNCHANGED <<now, kv, xVars, wVars, cVars, nVars>>

\* a feedback request of the widget; star: a star's handler awaits its response
FeedbackRequest(w, rating, star) ==
    [sessionId |-> w.currentSessionId, rating |-> rating, star |-> star]

\* function closeChat(), called by the close button
WgClose ==
    /\ wg.chatWindow = "flex"
    /\ IF wg.currentSessionId # NoSid /\ wg.children > 1
       THEN /\ Cardinality(fbSent) < MaxFeedback
            /\ wg' = [wg EXCEPT !.rating = "flex"]
            /\ fbSent' = fbSent \cup {FeedbackRequest(wg, 0, FALSE)}
       ELSE /\ wg' = [wg EXCEPT !.chatWindow = "none"]
            /\ UNCHANGED fbSent
    /\ uResp' = UNone
    /\ cResp' = CNone
    /\ fResp' = FNone
    /\ UNCHANGED <<sess, conv, nextGen, chatReq, storeErr, arrivals>>
    /\ UNCHANGED <<now, kv, xVars, wVars, cVars, nVars>>

\* the stars the user clicks, of the five
Stars == {MAX_RATING}

\* star.onclick up to the fetch, for the star of rating i
WgStar(i) ==
    /\ wg.chatWindow = "flex" /\ wg.rating = "flex"
    /\ Cardinality(fbSent) < MaxFeedback
    /\ fbSent' = fbSent \cup {FeedbackRequest(wg, i, TRUE)}
    /\ uResp' = UNone
    /\ cResp' = CNone
    /\ fResp' = FNone
    /\ UNCHANGED <<wg, sess, conv, nextGen, chatReq, storeErr, arrivals>>
    /\ UNCHANGED <<now, kv, xVars, wVars, cVars, nVars>>

\* the Worker handles a feedback request of the widget; the handler of a star
\* then sets the timer that resets the widget
WgFeedbackArrive(f, error) ==
    /\ f \in fbSent
    /\ fbSent' = fbSent \ {f}
    /\ sess' = Feedback(f.sessionId, f.rating, error)
    /\ fResp' = FNone
    /\ wg' = IF f.star THEN [wg EXCEPT !.resetDue = TRUE] ELSE wg
    /\ uResp' = UNone
    /\ cResp' = CNone
    /\ UNCHANGED <<conv, nextGen, chatReq, storeErr, arrivals>>
    /\ UNCHANGED <<now, kv, xVars, wVars, cVars, nVars>>

\* the fetch of a feedback request of the widget rejects, the Worker not having
\* been reached: closeChat and star.onclick log the error, no timer is set
WgFeedbackFail(f) ==
    /\ f \in fbSent
    /\ fbSent' = fbSent \ {f}
    /\ uResp' = UNone
    /\ cResp' = CNone
    /\ fResp' = FNone
    /\ UNCHANGED <<wg, sess, conv, nextGen, chatReq, storeErr, arrivals>>
    /\ UNCHANGED <<now, kv, xVars, wVars, cVars, nVars>>

\* setTimeout(() => { ... }, 2000) of star.onclick: the reset for next time
WgRatingReset ==
    /\ wg.resetDue
    /\ wg' = [ClearSession(wg) EXCEPT !.chatWindow = "none", !.rating = "none",
                                      !.children = 0, !.resetDue = FALSE,
                                      !.pending.typing = FALSE]
    /\ uResp' = UNone
    /\ cResp' = CNone
    /\ fResp' = FNone
    /\ UNCHANGED <<sess, conv, nextGen, chatReq, storeErr, arrivals, fbSent>>
    /\ UNCHANGED <<now, kv, xVars, wVars, cVars, nVars>>

\* the page is loaded again: the script runs anew on the same localStorage
Reload(w) ==
    [WgFresh EXCEPT !.currentSessionId = w.lsId, !.lsId = w.lsId, !.lsAge = w.lsAge,
                    !.sessionExpired = (w.lsAge # NoAge /\ ~IsSessionValid(w)),
                    !.pending = [w.pending EXCEPT !.alive = FALSE]]

WgReload ==
    /\ wg' = Reload(wg)
    /\ fbSent' = {[f EXCEPT !.star = FALSE] : f \in fbSent}
    /\ uResp' = UNone
    /\ cResp' = CNone
    /\ fResp' = FNone
    /\ UNCHANGED <<sess, conv, nextGen, chatReq, storeErr, arrivals>>
    /\ UNCHANGED <<now, kv, xVars, wVars, cVars, nVars>>

\* one unit of time passes in the browser
WgTick ==
    /\ wg.untilCheck > 0
    /\ ~wg.resetDue
    /\ wg' = [wg EXCEPT !.untilCheck = @ - 1,
                        !.lsAge = IF @ = NoAge THEN NoAge ELSE Sat(@ + 1, SESSION_TIMEOUT)]
    /\ uResp' = UNone
    /\ cResp' = CNone
    /\ fResp' = FNone
    /\ UNCHANGED <<sess, conv, nextGen, chatReq, storeErr, arrivals, fbSent>>
    /\ UNCHANGED <<now, kv, xVars, wVars, cVars, nVars>>

Widget ==
    \/ WgSend
    \/ \E outcome \in {"rejected", "answer", "aiFailed"} : WgReceive(outcome)
    \/ WgInterval
    \/ WgShow
    \/ WgHide
    \/ WgClose
    \/ \E i \in Stars : WgStar(i)
    \/ \E f \in fbSent, error \in BOOLEAN : WgFeedbackArrive(f, error)
    \/ \E f \in fbSent : WgFeedbackFail(f)
    \/ WgRatingReset
    \/ WgReload
    \/ WgTick

-----------------------------------------------------------------------------
(***************************************************************************)
(* The completion API's reply on its way to the user: POST /api/chat of    *)
(* the Worker from the call of the API to its response, and sendMessage of *)
(* the widget from the response to the message it shows.  A text is a      *)
(* sequence of words.                                                      *)
(***************************************************************************)
\* data.choices[0].message.content of an answer
AnswerText == <<"answer">>

\* c.json({ error: 'Failed to process chat message' }, 500)
FailedToProcess == <<"Failed", "to", "process", "chat", "message">>

\* addMessage('Sorry, I encountered an error. Please try again later.')
WidgetError == <<"Sorry,", "I", "encountered", "an", "error.">>

\* addMessage("I apologize, but I don't have enough information ...")
WidgetApology == <<"I", "apologize,", "but", "I", "don't", "have", "enough", "information">>

\* data.error.includes('training data')
TrainingData == <<"training", "data">>

\* what the API and the runtime say of a failure
InternalTexts == {<<"fetch", "failed">>,
                  <<"Rate", "limit", "reached">>,
                  <<"Incorrect", "API", "key">>,
                  <<"no", "training", "data">>}

\* no text
NoText == <<>>

\* str.includes(phrase), on words
Includes(text, phrase) ==
    \E i \in 1..Len(text) :
        /\ i + Len(phrase) - 1 <= Len(text)
        /\ SubSeq(text, i, i + Len(phrase) - 1) = phrase

\* a content member: a string, or null
Content(isNull, text) == [isNull |-> isNull, text |-> text]

\* one element of choices; hasMessage: it has a member message
Choice(hasMessage, content) == [hasMessage |-> hasMessage, content |-> content]

\* what the call of the completion API comes to.  kind "rejects": fetch throws
\* (network); "notJson": the body is no JSON; "json": the body parsed, with
\* or without a member choices.  error: the internal text of the failure
Reply(kind, error, hasChoices, choices) ==
    [kind |-> kind, error |-> error, hasChoices |-> hasChoices, choices |-> choices]

\* an answer
ReplyOk == Reply("json", NoText, TRUE, <<Choice(TRUE, Content(FALSE, AnswerText))>>)

Replies ==
    {ReplyOk} \cup
    {Reply("rejects", e, FALSE, <<>>) : e \in InternalTexts} \cup
    {Reply("notJson", e, FALSE, <<>>) : e \in InternalTexts} \cup
    \* { "error": { "message": ... } } of a 429 or a 401
    {Reply("json", e, FALSE, <<>>) : e \in InternalTexts} \cup
    {Reply("json", NoText, TRUE, <<>>),
     Reply("json", NoText, TRUE, <<Choice(FALSE, Content(TRUE, NoText))>>),
     Reply("json", NoText, TRUE, <<Choice(TRUE, Content(TRUE, NoText))>>)}

\* history notion: the call has not produced an answer, a first choice whose
\* message has a string for content
Failure(reply) ==
    ~(/\ reply.kind = "json"
      /\ reply.hasChoices
      /\ Len(reply.choices) > 0
      /\ reply.choices[1].hasMessage
      /\ ~reply.choices[1].content.isNull)

\* const response = await fetch(...); const data = await response.json();
\* const botResponse = data.choices[0].message.content: what is thrown, or the
\* botResponse
Completion(reply) ==
    IF reply.kind # "json"
    THEN [thrown |-> TRUE, message |-> reply.error, botResponse |-> Content(TRUE, NoText)]
    ELSE IF ~reply.hasChoices \/ Len(reply.choices) = 0 \/ ~reply.choices[1].hasMessage
    THEN [thrown |-> TRUE, message |-> <<"Cannot", "read", "properties", "of", "undefined">>,
          botResponse |-> Content(TRUE, NoText)]
    ELSE [thrown |-> FALSE, message |-> NoText, botResponse |-> reply.choices[1].content]

\* no chat response on its way.  History: failed, Failure of the reply;
\* internal, the internal text of the failure
RNone == [status |-> None, error |-> NoText, response |-> Content(TRUE, NoText),
          failed |-> FALSE, internal |-> NoText]

\* return c.json({ response: botResponse, sessionId: currentSessionId }), or
\* catch (error) { logError(...); return c.json({ error: 'Failed to process chat
\* message' }, 500) }
ChatBody(reply) ==
    LET r == Completion(reply)
    IN  IF r.thrown
        THEN [status |-> "500", error |-> FailedToProcess,
              response |-> Content(TRUE, NoText),
              failed |-> Failure(reply), internal |-> reply.error]
        ELSE [status |-> "200", error |-> NoText, response |-> r.botResponse,
              failed |-> Failure(reply), internal |-> reply.error]

\* sendMessage from `if (data.error)` on: the text of the message it adds to
\* the log.  element.textContent = null shows no text
Display(data) ==
    IF data.error # NoText
    THEN IF Includes(data.error, TrainingData) THEN WidgetApology ELSE WidgetError
    ELSE IF data.response.isNull THEN NoText ELSE data.response.text

\* the Worker has sent the user's message to the completion API and answers
\* the widget
RComplete(reply) ==
    /\ rResp.status = None
    /\ Len(botLog) < MaxShown
    /\ rResp' = ChatBody(reply)
    /\ UNCHANGED botLog
    /\ UNCHANGED <<now, kv, xVars, wVars, cVars, sVars, uiVars, vVars, analytics, tVars>>

\* the widget handles the response
RShow ==
    /\ rResp.status # None
    /\ botLog' = Append(botLog, Display(rResp))
    /\ rResp' = RNone
    /\ UNCHANGED <<now, kv, xVars, wVars, cVars, sVars, uiVars, vVars, analytics, tVars>>

\* the page is loaded again
RReload ==
    /\ botLog # <<>>
    /\ botLog' = <<>>
    /\ rResp' = RNone
    /\ UNCHANGED <<now, kv, xVars, wVars, cVars, sVars, uiVars, vVars, analytics, tVars>>

-----------------------------------------------------------------------------
(***************************************************************************)
(* POST /api/chat of the Worker from the request body to its first write.  *)
(* A string is a sequence of one-character strings.                        *)
(***************************************************************************)
\* the characters of the messages a client sends
MessageChars == {"a", " ", "<"}

\* strings of at most n characters of S
StringsUpTo(S, n) == UNION {[1..k -> S] : k \in 0..n}

\* 'cb_' + Math.random().toString(36).substr(2, 9), one of them
WellFormedId == <<"c", "b", "_", "a", "b", "c", "1", "2", "3", "x", "y", "z">>

\* "invalid_id"
MalformedId == <<"i", "n", "v", "a", "l", "i", "d", "_", "i", "d">>

\* [a-z0-9]
IdChars == {"a", "b", "c", "d", "e", "f", "g", "h", "i", "j", "k", "l", "m", "n",
            "o", "p", "q", "r", "s", "t", "u", "v", "w", "x", "y", "z",
            "0", "1", "2", "3", "4", "5", "6", "7", "8", "9"}

\* /^cb_[a-z0-9]{9}$/.test(id)
ValidateChatbotId(id) ==
    /\ Len(id) = 3 + CHATBOT_ID_SUFFIX
    /\ SubSeq(id, 1, 3) = <<"c", "b", "_">>
    /\ \A i \in 4..Len(id) : id[i] \in IdChars

\* a request body; hasChatbotId, hasMessage: the member is there
Body(hasChatbotId, chatbotId, hasMessage, message) ==
    [hasChatbotId |-> hasChatbotId, chatbotId |-> chatbotId,
     hasMessage |-> hasMessage, message |-> message]

\* no request
NoBody == Body(FALSE, <<>>, FALSE, <<>>)

\* the bodies clients send
ChatBodies ==
    {Body(TRUE, id, TRUE, m) : id \in {<<>>, WellFormedId, MalformedId},
                                m \in StringsUpTo(MessageChars, MaxMessageLen)}
    \cup {Body(FALSE, <<>>, TRUE, m) : m \in StringsUpTo(MessageChars, MaxMessageLen)}
    \cup {Body(TRUE, id, FALSE, <<>>) : id \in {<<>>, WellFormedId, MalformedId}}
    \cup {NoBody}

\* !value of a member that is absent or a string
Falsy(has, str) == ~has \/ Len(str) = 0

\* .replace(/[<>"'&]/g, (match) => entities[match])
Escape(ch) == IF ch = "<" THEN <<"&", "l", "t", ";">> ELSE <<ch>>

RECURSIVE EscapeAll(_)
EscapeAll(str) ==
    IF str = <<>> THEN <<>> ELSE Escape(Head(str)) \o EscapeAll(Tail(str))

\* .trim()
RECURSIVE TrimStart(_)
TrimStart(str) ==
    IF str # <<>> /\ Head(str) = " " THEN TrimStart(Tail(str)) ELSE str

RECURSIVE TrimEnd(_)
TrimEnd(str) ==
    IF str # <<>> /\ str[Len(str)] = " "
    THEN TrimEnd(SubSeq(str, 1, Len(str) - 1)) ELSE str

Trim(str) == TrimEnd(TrimStart(str))

\* .slice(0, n)
Slice(str, n) == SubSeq(str, 1, Min(Len(str), n))

\* function sanitizeInput(input), of a string
SanitizeInput(input) == Slice(Trim(EscapeAll(input)), SANITIZE_SLICE)

\* no chat request validated
VNone == [status |-> None]

\* POST /api/chat from c.req.json() to the upsert of the session: 400, or
\* "upsert", the handler goes on to write
ValidateChat(b) ==
    IF Falsy(b.hasChatbotId, b.chatbotId) \/ Falsy(b.hasMessage, b.message)
    THEN [status |-> "400"]
    ELSE IF Len(SanitizeInput(b.message)) > MAX_CHAT_MESSAGE
    THEN [status |-> "400"]
    ELSE [status |-> "upsert"]

\* a chat request arrives at the Worker
VChat(b) ==
    /\ reqBody' = b
    /\ vResp' = ValidateChat(b)
    /\ UNCHANGED <<now, kv, xVars, wVars, cVars, sVars, uiVars, rVars, analytics, tVars>>

\* history notion: what the request lacks.  A message is over-long when what
\* is left of it after trimming is longer than the limit
Invalid(b) ==
    \/ ~b.hasChatbotId \/ ~b.hasMessage
    \/ Len(b.message) = 0
    \/ Len(Trim(b.message)) > MAX_CHAT_MESSAGE
    \/ ~ValidateChatbotId(b.chatbotId)

-----------------------------------------------------------------------------
(***************************************************************************)
(* Analytics: update_chat_analytics() of the schema (backend/public/       *)
(* widget.js), the daily rollup into chat_analytics, and the live stats of *)
(* GET /api/chatbots/:id/analytics of the Worker, over the tables          *)
(* chat_sessions and conversations.  All sessions here are started on the  *)
(* day of the rollup.  An average is kept as the sum and the number of its *)
(* terms.                                                                  *)
(***************************************************************************)
\* the chatbots that have sessions
RollupChatbots == ChatBots \cup {OtherChatbot}

\* no row of chat_analytics for a chatbot and today
NoAnalytics == [rows |-> 0, total_sessions |-> 0, total_messages |-> 0,
                satSum |-> 0, satCount |-> 0]

\* the sum of f over the set S
RECURSIVE SumOver(_, _)
SumOver(S, f) ==
    IF S = {} THEN 0
    ELSE LET x == CHOOSE y \in S : TRUE IN f[x] + SumOver(S \ {x}, f)

\* FROM chat_sessions cs ... WHERE DATE(cs.started_at) = CURRENT_DATE, one
\* group of GROUP BY cs.chatbot_id: the session ids of a chatbot
SessionsOf(chatbotId) ==
    {sid \in SessIds : sess[sid].rows > 0 /\ sess[sid].chatbot_id = chatbotId}

\* the rows of conversations with a session_id
ConversationRows(sid) == conv[sid].user + conv[sid].bot

\* LEFT JOIN conversations c ON cs.session_id = c.session_id: the rows the join
\* yields for the rows of chat_sessions with a session_id
JoinedRows(sid) ==
    sess[sid].rows * (IF ConversationRows(sid) = 0 THEN 1 ELSE ConversationRows(sid))

\* satisfaction_rating IS NOT NULL
Rated(sid) == sess[sid].rating # NoRating

\* the SELECT of update_chat_analytics for one chatbot: COUNT(DISTINCT cs.id),
\* COUNT(c.id), AVG(cs.satisfaction_rating)
RollupSelect(chatbotId) ==
    LET S == SessionsOf(chatbotId)
        R == {sid \in S : Rated(sid)}
    IN  [total_sessions |-> SumOver(S, [sid \in S |-> sess[sid].rows]),
         total_messages |-> SumOver(S, [sid \in S |-> sess[sid].rows * ConversationRows(sid)]),
         satSum |-> SumOver(R, [sid \in R |-> sess[sid].rating * JoinedRows(sid)]),
         satCount |-> SumOver(R, [sid \in R |-> JoinedRows(sid)])]

\* an INSERT into a table without UNIQUE(chatbot_id, date)
RollupUpsert_M(row, new) ==
    [rows |-> row.rows + 1, total_sessions |-> new.total_sessions,
     total_messages |-> new.total_messages, satSum |-> new.satSum,
     satCount |-> new.satCount]

\* INSERT INTO chat_analytics ... ON CONFLICT (chatbot_id, date) DO UPDATE SET
\* ... = EXCLUDED. ..., on UNIQUE(chatbot_id, date): what becomes of the rows
\* of a chatbot and today
RollupUpsert(row, new) ==
    [rows |-> IF row.rows = 0 THEN 1 ELSE row.rows,
     total_sessions |-> new.total_sessions,
     total_messages |-> new.total_messages, satSum |-> new.satSum,
     satCount |-> new.satCount]

\* update_chat_analytics(): chat_analytics after a run that found it as table
UpdateChatAnalytics(table) ==
    [cb \in RollupChatbots |->
        IF SessionsOf(cb) = {} THEN table[cb]
        ELSE RollupUpsert(table[cb], RollupSelect(cb))]

\* realTimeStats of GET /api/chatbots/:id/analytics
RealTimeStats(chatbotId) ==
    LET S == SessionsOf(chatbotId)
        R == {sid \in S : Rated(sid) /\ sess[sid].rating # 0}
    IN  [todaySessions |-> SumOver(S, [sid \in S |-> sess[sid].rows]),
         todayMessages |-> SumOver(S, [sid \in S |-> sess[sid].rows * sess[sid].message_count]),
         satSum |-> SumOver(R, [sid \in R |-> sess[sid].rows * sess[sid].rating]),
         satCount |-> SumOver(R, [sid \in R |-> sess[sid].rows])]

\* what POST /api/chat makes of chat_sessions, store errors apart.  outcome:
\* "answer"; "noDocs", the apology; "aiFailed", the 500 of a failed completion
HandledSessions(sid, chatbotId, outcome) ==
    IF outcome = "answer"
    THEN [sess EXCEPT ![sid] = IncrementSessionMessages(UpsertSession(@, chatbotId))]
    ELSE [sess EXCEPT ![sid] = UpsertSession(@, chatbotId)]

\* what POST /api/chat makes of conversations, store errors apart
HandledConversations(sid, outcome) ==
    IF outcome = "aiFailed"
    THEN [conv EXCEPT ![sid].user = @ + 1]
    ELSE [conv EXCEPT ![sid].user = @ + 1, ![sid].bot = @ + 1]

\* POST /api/chat, handled in one step
AChat(chatbotId, sessionId, outcome) ==
    LET sid == CurrentSessionId(sessionId, nextGen + 1)
    IN  /\ sessionId \in Known \cup {NoSid}
        /\ sessionId = NoSid => nextGen < MaxGen
        /\ SumOver(SessIds, [s \in SessIds |-> conv[s].user]) < MaxLogged
        /\ nextGen' = IF sessionId = NoSid THEN nextGen + 1 ELSE nextGen
        /\ sess' = HandledSessions(sid, chatbotId, outcome)
        /\ conv' = HandledConversations(sid, outcome)
        /\ UNCHANGED <<chatReq, cResp, fResp, storeErr, arrivals, analytics>>
        /\ UNCHANGED <<now, kv, xVars, wVars, cVars, uiVars, rVars, vVars, tVars>>

\* POST /api/chat/feedback with a star's rating for a session that exists
AFeedback(sessionId, rating) ==
    /\ sess[sessionId].rows > 0
    /\ sess' = Feedback(sessionId, rating, FALSE)
    /\ UNCHANGED <<conv, nextGen, chatReq, cResp, fResp, storeErr, arrivals, analytics>>
    /\ UNCHANGED <<now, kv, xVars, wVars, cVars, uiVars, rVars, vVars, tVars>>

\* SELECT update_chat_analytics(), the daily job
ARollup ==
    /\ analytics' = UpdateChatAnalytics(analytics)
    /\ UNCHANGED <<now, kv, xVars, wVars, cVars, sVars, uiVars, rVars, vVars, tVars>>

-----------------------------------------------------------------------------
(***************************************************************************)
(* Worker: the chat_sessions row of POST /api/chat with its timestamps     *)
(***************************************************************************)
\* no row of chat_sessions with a session_id
NoChatSession == [has |-> FALSE, chatbot_id |-> None, started_at |-> 0, created_at |-> 0]

\* { chatbot_id: chatbotId, session_id: currentSessionId, ip_address, user_agent,
\*   started_at: new Date().toISOString() }
SessionValues(chatbotId, t) == [chatbot_id |-> chatbotId, started_at |-> t]

\* .upsert(values, { onConflict: 'session_id' }): the row is inserted, with
\* created_at TIMESTAMP DEFAULT CURRENT_TIMESTAMP, or the row that holds the
\* session_id gets every column of values
UpsertRow(row, values, t) ==
    IF ~row.has
    THEN [has |-> TRUE, chatbot_id |-> values.chatbot_id,
          started_at |-> values.started_at, created_at |-> t]
    ELSE [row EXCEPT !.chatbot_id = values.chatbot_id,
                     !.started_at = values.started_at]

\* POST /api/chat with currentSessionId sid, up to its upsert
TUpsert(chatbotId, sid) ==
    /\ chatSessions' = [chatSessions EXCEPT
            ![sid] = UpsertRow(@, SessionValues(chatbotId, dateNow), dateNow)]
    /\ UNCHANGED <<dateNow, now, kv, xVars, wVars, cVars, sVars, uiVars, rVars, vVars, analytics>>

\* time passes at the Worker
TTick ==
    /\ dateNow < MaxDate
    /\ dateNow' = dateNow + 1
    /\ UNCHANGED <<chatSessions, now, kv, xVars, wVars, cVars, sVars, uiVars, rVars, vVars, analytics>>

-----------------------------------------------------------------------------
(***************************************************************************)
(* Specifications                                                          *)
(***************************************************************************)
\* no reply of the completion API on its way, nothing in the log; no chat
\* request validated; chat_analytics empty
NRest ==
    /\ rResp = RNone
    /\ botLog = <<>>
    /\ reqBody = NoBody
    /\ vResp = VNone
    /\ analytics = [cb \in RollupChatbots |-> NoAnalytics]
    /\ chatSessions = [sid \in SessIds |-> NoChatSession]
    /\ dateNow = 0

\* no chat request; the widget in a fresh browser
SRest ==
    /\ nextGen = 0
    /\ chatReq = [r \in 1..MaxChats |-> CIdle]
    /\ cResp = CNone
    /\ fResp = FNone
    /\ storeErr = 0
    /\ arrivals = 0
    /\ wg = WgFresh
    /\ fbSent = {}
    /\ uResp = UNone
    /\ NRest

\* no session and no conversation
SInit ==
    /\ sess = [sid \in SessIds |-> NoSession]
    /\ conv = [sid \in SessIds |-> [user |-> 0, bot |-> 0]]
    /\ SRest

\* the limiters and the config cache before the first request
OtherInit ==
    /\ now = 0
    /\ rateLimitMap = [k \in XKeys |-> NoLimit]
    /\ xResp = XNone
    /\ xSeen = [k \in XKeys |-> 0]
    /\ xAdmitted = [k \in XKeys |-> 0]
    /\ xFinal = None
    /\ kv = [k \in RateKeys \cup CacheKeys |-> NoKV]
    /\ wReq = [r \in 1..MaxInFlight |-> WIdle]
    /\ wResp = WNone
    /\ wAdmChat = [k \in WKeys |-> 0]
    /\ variant = "part_002"
    /\ db = [id \in ChatbotIds |-> NoRow]
    /\ gReq = [g \in 1..MaxGets |-> GIdle]
    /\ gResp = GNone
    /\ pReq = [p \in 1..MaxPuts |-> PIdle]
    /\ pResp = PNone
    /\ lastGet = [id \in ChatbotIds |-> NoLast]
    /\ srcAge = [id \in ChatbotIds |-> AgeCap]

Init == OtherInit /\ SInit

\* a session left by one round trip of an earlier chat
OldSession(owner, ended) ==
    [rows |-> 1, chatbot_id |-> owner, ended |-> ended, rating |-> NoRating,
     message_count |-> 1]

\* what the tables may hold of the old session id before the first step
OldSessions ==
    {NoSession, OldSession(OtherChatbot, FALSE)} \cup
    {OldSession(o, e) : o \in ChatBots, e \in BOOLEAN}

\* the tables hold the old session or nothing
TInit ==
    /\ OtherInit
    /\ SRest
    /\ sess \in {[sid \in SessIds |-> IF sid = OldSid THEN o ELSE NoSession] :
                    o \in OldSessions}
    /\ conv = [sid \in SessIds |-> IF sess[sid].rows = 0 THEN [user |-> 0, bot |-> 0]
                                                            ELSE [user |-> 1, bot |-> 1]]

XNext == XRequest \/ XCleanup \/ Tick

\* the Express server with its limiter
SpecExpress == Init /\ [][XNext]_vars

WNext == WRequest \/ WWrite \/ KTick

\* the Worker's limiter in front of its three public routes
SpecLimiter == Init /\ [][WNext]_vars

CInit ==
    /\ SInit
    /\ now = 0
    /\ rateLimitMap = [k \in XKeys |-> NoLimit]
    /\ xResp = XNone
    /\ xSeen = [k \in XKeys |-> 0]
    /\ xAdmitted = [k \in XKeys |-> 0]
    /\ xFinal = None
    /\ kv = [k \in RateKeys \cup CacheKeys |-> NoKV]
    /\ wReq = [r \in 1..MaxInFlight |-> WIdle]
    /\ wResp = WNone
    /\ wAdmChat = [k \in WKeys |-> 0]
    /\ variant \in Variants
    /\ db \in [ChatbotIds -> Rows \cup {NoRow}]
    /\ gReq = [g \in 1..MaxGets |-> GIdle]
    /\ gResp = GNone
    /\ pReq = [p \in 1..MaxPuts |-> PIdle]
    /\ pResp = PNone
    /\ lastGet = [id \in ChatbotIds |-> NoLast]
    /\ srcAge = [id \in ChatbotIds |-> AgeCap]

CNext == GetConfig \/ PutChatbot \/ AccountDelete \/ KTick

\* the Worker's public config endpoint, chatbot update and account deletion
SpecCache == CInit /\ [][CNext]_vars

GNext == GetConfig \/ KTick

\* the Worker's public config endpoint over a chatbots table that is left alone
SpecCacheGet == CInit /\ [][GNext]_vars

SNext == Chat

\* the Worker's chat endpoint, called by any clients
SpecSession == TInit /\ [][SNext]_vars

FNext == ChatFeedback

\* the Worker's feedback endpoint, called by any clients
SpecFeedback == TInit /\ [][FNext]_vars

UNext == Widget

ANext ==
    \/ \E chatbotId \in RollupChatbots, sessionId \in SessIds \cup {NoSid},
          outcome \in {"answer", "noDocs", "aiFailed"} : AChat(chatbotId, sessionId, outcome)
    \/ \E sessionId \in SessIds, rating \in {MIN_STORED_RATING, MAX_RATING} :
          AFeedback(sessionId, rating)
    \/ ARollup

\* the day's chats and ratings with the rollup job
SpecRollup == Init /\ [][ANext]_vars

TNext ==
    \/ \E chatbotId \in RollupChatbots, sid \in SessIds : TUpsert(chatbotId, sid)
    \/ TTick

\* the upserts of the chat endpoint as time passes
SpecResume == Init /\ [][TNext]_vars

VNext == \E b \in ChatBodies : VChat(b)

\* the validation of chat requests by the Worker
SpecValidation == Init /\ [][VNext]_vars

RNext == (\E reply \in Replies : RComplete(reply)) \/ RShow \/ RReload

\* the completion API's reply, the Worker's response and the widget's log
SpecReply == Init /\ [][RNext]_vars

\* one widget and the Worker's chat and feedback endpoints
SpecWidget == Init /\ [][UNext]_vars

-----------------------------------------------------------------------------
(***************************************************************************)
(* Properties                                                              *)
(***************************************************************************)

\* C1: of the requests one client sends within one window, exactly the first
\* min(N, limit) are admitted, and every later one is rejected with status 429
\* and a retry-after greater than zero.
C1_FirstAdmittedRestRejected ==
    /\ \A k \in XKeys : xAdmitted[k] = Min(xSeen[k], RATE_LIMIT_MAX_REQUESTS)
    /\ xResp.status = "429" => xResp.retryAfter > 0

\* C2: a request that arrives after the window of its client has elapsed is
\* admitted and opens a fresh window (count 1, reset one window from now), even
\* if the elapsed window was exhausted.
C2_ElapsedWindowAdmits ==
    xResp.elapsed =>
        /\ xResp.status = "next"
        /\ rateLimitMap[xResp.ip] =
                [has |-> TRUE, count |-> 1, resetTime |-> now + RATE_LIMIT_WINDOW]

\* C2, its case: a request admitted after an exhausted window had elapsed
C2_Witness ==
    xResp.elapsed /\ xResp.exhausted /\ xResp.status = "next"

\* C3: a request to one route class never changes the counter of another
\* route class.
C3_RouteIsolation == ~wResp.otherChanged

\* C4: with at most MaxInFlight requests between counter read and counter write,
\* the chat requests the counter admits for one client in one window never
\* exceed the limit plus MaxInFlight.
C4_AdmittedAtMostLimitPlusK ==
    \A k \in WKeys : wAdmChat[k] <= LIMIT_CHAT + MaxInFlight

\* C5: a request during which a read or write of the counter store fails is
\* admitted, never answered 429.
C5_FailOpen == wResp.storeFailed => wResp.status = "next"

\* C5, its case: a request admitted on a failed read while the stored counter
\* of its client had reached the limit of its route
C5_Witness ==
    /\ wResp.storeFailed
    /\ wResp.status = "next"
    /\ CountOf(KVGet(RateLimitKey(wResp.key, wResp.route))) >= LimitOf(wResp.route)

\* C6: every rejection by the limiter is a 429 that carries retry-after, the
\* time left until the window resets.
C6_RejectionCarriesRetryAfter ==
    wResp.status = "429" =>
        wResp.retryAfter = kv[RateLimitKey(wResp.key, wResp.route)].ttl

\* C7, as stated: a get that follows a completed get of the same chatbot within
\* the ttl, no invalidate between them, returns the same response.
C7_RepeatedGetIdentical == gResp.repeat # "diff"

\* C7, amended: a get whose cache read succeeds on a live entry returns exactly
\* that entry and does not query the source; every other get (entry absent,
\* expired or invalidated, or the read failed) queries the source.
C7_HitReturnsEntryMissQueries ==
    /\ gResp.mustHit =>
            gResp.status = "200" /\ gResp.body = gResp.expected /\ ~gResp.queried
    /\ (gResp.status # None /\ ~gResp.mustHit) => gResp.queried

\* C7, its case: a second get within the ttl answered from the cache, the same
\* as the first
C7_Witness ==
    gResp.mustHit /\ gResp.repeat = "same" /\ gResp.status = "200"

\* C8, as stated: the endpoint answers with a config only while the chatbot is
\* deployed, and with not-found otherwise.
C8_ConfigOnlyWhileDeployed == gResp.status = "200" => gResp.deployedNow

\* C8, amended: a get that misses the cache answers with {name, color,
\* welcomeMessage} of the row exactly when its query finds the chatbot deployed,
\* and with not-found otherwise; any config answered has these three members only.
C8_MissChecksDeployment ==
    /\ gResp.queried =>
            /\ gResp.status \in {"200", "404"}
            /\ (gResp.status = "200") <=> gResp.qFound
            /\ gResp.status = "200" => gResp.body = gResp.qView
            /\ gResp.status = "404" => gResp.body = NoData
    /\ DOMAIN gResp.body = {"name", "color", "welcomeMessage"}

\* C8, its case: not-found for a chatbot whose row exists but is not deployed
C8_Witness ==
    /\ gResp.queried
    /\ gResp.status = "404"
    /\ db[gResp.id].exists
    /\ ~db[gResp.id].is_deployed

\* C9: every successful update has deleted the cache entry after its write to
\* the source committed, and an update whose write failed deletes nothing.
C9_UpdateInvalidates ==
    /\ pResp.status = "200" => (pResp.committed /\ pResp.invalidated)
    /\ ~pResp.committed => ~pResp.invalidated

C11_CacheFailureNotFatal ==
    [][\A g \in 1..MaxGets :
            /\ gResp'.status # "500"
            /\ (\E id \in ChatbotIds : GCacheRead(g, id, TRUE)) =>
                    /\ gReq'[g].pc = "query"
                    /\ gResp' = GNone
            /\ GStore(g, TRUE) =>
                    /\ gResp'.status = "200"
                    /\ gResp'.queried /\ gResp'.qFound
                    /\ gResp'.body = gResp'.qView]_vars

\* C11, its case: the config of a deployed chatbot answered by a get that
\* queried the source and whose cache write failed, no entry being there after
C11_Witness ==
    /\ gResp.status = "200"
    /\ gResp.queried
    /\ gResp.body # NoData
    /\ ~kv[CacheKey(gResp.id)].has

\* a chat request is between its upsert and its response
InHandler(r) == chatReq[r].pc \in {"user", "bot", "increment"}

\* C12: under every interleaving of chat requests, those that name the same new
\* session id included, chat_sessions holds at most one row per session id, and
\* exactly one for the id of every request whose upsert has run, no write having
\* failed.
C12_OneRowPerSessionId ==
    /\ \A sid \in SessIds : sess[sid].rows <= 1
    /\ storeErr = 0 =>
            \A r \in 1..MaxChats : InHandler(r) => sess[chatReq[r].sid].rows = 1

\* C12, its case: two requests in the handler at once that sent the same
\* session id, which had no row when the first of them arrived
C12_Witness ==
    /\ InHandler(1) /\ InHandler(2)
    /\ chatReq[1].supplied # NoSid
    /\ chatReq[1].supplied = chatReq[2].supplied
    /\ chatReq[1].cand = "unknown"
    /\ storeErr = 0
    /\ sess[chatReq[1].sid].rows = 1

\* C13: a chat answers with the session id it was sent only when that id
\* resolved to an existing session of the same chatbot that has not ended;
\* otherwise it answers with an id newly generated.
C13_ResumeOnlyLiveOwnSession ==
    cResp.status = "200" =>
        IF cResp.cand = "resumable"
        THEN cResp.sessionId = cResp.supplied
        ELSE /\ cResp.sessionId # cResp.supplied
             /\ cResp.sessionId \in {GenSid(n) : n \in 1..nextGen}

\* C15: when no write has failed and no chat request is in the handler, the
\* message_count of every session equals the number of its rows written by
\* the bot.
C15_CountEqualsBotRows ==
    (storeErr = 0 /\ \A r \in 1..MaxChats : ~InHandler(r)) =>
        \A sid \in SessIds : sess[sid].message_count = conv[sid].bot

\* C16: a chat with a chatbot without documents answers with the apology and a
\* session id, and, no write having failed, has incremented message_count.
C16_NoDocumentsCounted ==
    (cResp.status = "200" /\ cResp.noDocs) =>
        /\ cResp.response = Apology
        /\ cResp.sessionId # NoSid
        /\ storeErr = 0 => cResp.incremented

\* C17: whatever writes to the store fail, a chat answers with a server error
\* only when the completion API gave no answer; every other valid request gets
\* its response and its session id: the id sent if one was sent, the apology
\* exactly when the chatbot has no document.
C17_WriteFailureKeepsOutcome ==
    /\ cResp.status = "500" => cResp.aiFailed
    /\ cResp.status = "200" =>
            /\ cResp.sessionId # NoSid
            /\ cResp.supplied # NoSid => cResp.sessionId = cResp.supplied
            /\ cResp.response = IF cResp.noDocs THEN Apology ELSE Answer

\* C17, its case: the only chat request so far has had a write fail and is
\* answered with its response and its session id
C17_Witness ==
    /\ chatReq[2].pc = "idle"
    /\ storeErr = 1
    /\ cResp.status = "200"
    /\ cResp.response = Answer
    /\ cResp.sessionId # NoSid

\* C18: a feedback request with a rating in 0..5 for an existing session, its
\* update succeeding, ends the session; the rating stored is the one sent when
\* that is in 1..5 and is left as it was when 0 is sent; 0 is never stored.
C18_EndSessionRating ==
    /\ \A sid \in SessIds : sess[sid].rating # 0
    /\ fResp.status = "200" =>
            /\ fResp.rating \in 0..MAX_RATING
            /\ fResp.existed =>
                    /\ sess[fResp.sessionId].ended
                    /\ fResp.rating \in 1..MAX_RATING =>
                            sess[fResp.sessionId].rating = fResp.rating
                    /\ fResp.rating = 0 =>
                            sess[fResp.sessionId].rating = fResp.ratingBefore

\* C18, its case: rating 0 has ended a session that was open and unrated
C18_Witness ==
    /\ fResp.status = "200"
    /\ fResp.existed
    /\ fResp.rating = 0
    /\ sess[fResp.sessionId].ended
    /\ sess[fResp.sessionId].rating = NoRating

\* C14: once a session has ended, no row is added to its conversation and its
\* message_count does not change, whatever the widget and the Worker do next.
C14_EndedSessionFrozen ==
    [][\A sid \in SessIds :
            (sess[sid].rows > 0 /\ sess[sid].ended) =>
                /\ conv'[sid] = conv[sid]
                /\ sess'[sid].message_count = sess[sid].message_count]_vars

\* C19: a message the widget sends while the persisted activity stamp is
\* sessionTimeout old or older is not answered with the session id it held.
C19_StaleIdNotResumed ==
    (uResp.status = "200" /\ uResp.stale) => uResp.got # uResp.sent

C21_ExpiryClearedAndNoticed ==
    [][(WgInterval /\ wg.currentSessionId # NoSid /\ ~IsSessionValid(wg)) =>
            /\ wg'.currentSessionId = NoSid
            /\ wg'.lsId = NoSid
            /\ wg'.lsAge = NoAge
            /\ wg'.expirationShown
            /\ wg'.children = Children(wg.children + 1)]_vars

C23_EarlyCloseDropsSession ==
    [][(WgClose /\ wg.children <= 1) =>
            /\ fbSent' = fbSent
            /\ wg'.chatWindow = "none"
            /\ wg'.currentSessionId = NoSid
            /\ wg'.lsId = NoSid
            /\ wg'.lsAge = NoAge]_vars

\* C24: opening the window adds no welcome message while a session id is held
\* and the welcome has been shown since it was obtained, and none while the
\* welcome is in the log and no message has been sent yet: the welcome is
\* shown once for each episode, not once for each opening.
C24_WelcomeOncePerEpisode ==
    [][WgShow =>
            /\ (wg.currentSessionId # NoSid /\ wg.welcomeShown /\ wg.rating = "none") =>
                    wg'.children = wg.children
            /\ (arrivals = 0 /\ wg.children > 0) =>
                    wg'.children = wg.children]_vars

\* C25: a page of the widget has at most one chat request awaiting its
\* response, and its input and send button are disabled exactly while it has
\* one.
C25_OneRequestInFlight ==
    /\ wg.inFlight <= 1
    /\ wg.disabled <=> wg.inFlight = 1
    /\ wg.inFlight = 1 <=> (wg.pending.on /\ wg.pending.alive)

\* C25, its case: the second message of a page is in flight, the first having
\* been answered, and the controls are disabled
C25_Witness ==
    /\ arrivals = 2
    /\ wg.inFlight = 1
    /\ wg.disabled
    /\ wg.pending.on /\ wg.pending.alive
    /\ wg.currentSessionId # NoSid
    /\ wg.chatWindow = "flex"

\* C26: whenever the call of the completion API has not produced an answer, the
\* Worker responds with its one fixed error text, which includes no internal
\* text of the failure, and the widget shows its one fixed error message.
C26_FailureShownAsFixedMessage ==
    (rResp.status # None /\ rResp.failed) =>
        /\ rResp.status = "500"
        /\ rResp.error = FailedToProcess
        /\ \A e \in InternalTexts : ~Includes(rResp.error, e)
        /\ Display(rResp) = WidgetError

\* C27: a chat request that lacks chatbotId or message, whose message is empty
\* or over-long, or whose chatbotId is malformed is answered 400 and the
\* handler does not go on to its writes and the completion call.
C27_InvalidRejected ==
    (vResp.status # None /\ Invalid(reqBody)) => vResp.status = "400"


\* chat_analytics holds what a run of the job would leave now
RollupFresh == analytics = UpdateChatAnalytics(analytics)

\* C28: a second run of update_chat_analytics with no change of the data in
\* between leaves chat_analytics as the first run left it, and no chatbot has
\* more than one row for the day
C28_RollupIdempotent ==
    /\ UpdateChatAnalytics(UpdateChatAnalytics(analytics)) = UpdateChatAnalytics(analytics)
    /\ \A cb \in RollupChatbots : analytics[cb].rows <= 1

\* the job has written a chatbot's row and the day's data has changed since:
\* the next run and the one after it take ON CONFLICT ... DO UPDATE
C28_Witness ==
    \E cb \in RollupChatbots :
        /\ analytics[cb].rows = 1
        /\ analytics[cb].total_messages # RollupSelect(cb).total_messages

\* C29: the row the job has just written for a chatbot holds the metrics of the
\* live stats over the same rows: total_sessions is todaySessions,
\* total_messages is todayMessages, and satisfaction_score is avgSatisfaction
C29_RollupEqualsLiveStats ==
    RollupFresh =>
        \A cb \in RollupChatbots :
            analytics[cb].rows = 1 =>
                /\ analytics[cb].total_sessions = RealTimeStats(cb).todaySessions
                /\ analytics[cb].total_messages = RealTimeStats(cb).todayMessages
                /\ analytics[cb].satSum * RealTimeStats(cb).satCount
                       = RealTimeStats(cb).satSum * analytics[cb].satCount

C31_FixedWindow ==
    [][\A r \in 1..MaxInFlight :
        LET rk == RateLimitKey(wReq[r].key, wReq[r].route)
        IN  (WPut(r, FALSE) /\ KVLive(rk)) => kv'[rk].ttl = kv[rk].ttl]_vars

\* C32: whatever the order of the reads and writes of concurrent requests, the
\* count stored for a client and a route class is at least 1 and at most the
\* limit of that route class
C32_StoredCountWithinLimit ==
    \A k \in WKeys, route \in Routes :
        LET rk == RateLimitKey(k, route)
        IN  KVLive(rk) =>
                /\ CountOf(kv[rk].val) >= 1
                /\ CountOf(kv[rk].val) <= LimitOf(route)

\* what GET /public/chatbots/:id answers for a request that begins now, runs
\* alone and meets no failure of the cache or of the query (NoData: not found)
NextGet(chatbotId) ==
    LET data == GetFromCache(CacheKey(chatbotId), FALSE)
    IN  IF data # NoData THEN data
        ELSE IF NotFound(FALSE, db[chatbotId]) THEN NoData
        ELSE PublicConfig(db[chatbotId])

\* GET /public/chatbots/:id with a chatbots table whose queries do not fail
GetConfigQueried ==
    \/ \E g \in 1..MaxGets, chatbotId \in ChatbotIds, fail \in BOOLEAN :
          GCacheRead(g, chatbotId, fail)
    \/ \E g \in 1..MaxGets : GQuery(g, FALSE)
    \/ \E g \in 1..MaxGets, fail \in BOOLEAN : GStore(g, fail)

QNext == GetConfigQueried \/ PutChatbot \/ KTick

\* the public config endpoint and the chatbot update; every 404 of a get says
\* that its query found the chatbot missing or not deployed
SpecNotFound == CInit /\ [][QNext]_vars

\* C33: a not-found answer leaves nothing in the cache: when the latest get of a
\* chatbot answered not found, the chatbot is deployed in the chatbots table by
\* now and no request is under way, the next get answers the config the table
\* holds
C33_NotFoundNotCached ==
    \A id \in ChatbotIds :
        (/\ \A g \in 1..MaxGets : gReq[g].pc = "idle"
         /\ \A p \in 1..MaxPuts : pReq[p].pc = "idle"
         /\ lastGet[id].has /\ lastGet[id].status = "404"
         /\ db[id].exists /\ db[id].is_deployed) =>
            NextGet(id) = SourceView(db[id])

\* C34: a chat that resumes a session leaves the row's started_at and
\* chatbot_id as they were: started_at stays the time at which the row was
\* created and the session keeps its chatbot
C34_ResumeKeepsStartAndOwner ==
    [][\A chatbotId \in RollupChatbots, sid \in SessIds :
        (TUpsert(chatbotId, sid) /\ chatSessions[sid].has) =>
            /\ chatSessions'[sid].started_at = chatSessions[sid].started_at
            /\ chatSessions'[sid].started_at = chatSessions'[sid].created_at
            /\ chatSessions'[sid].chatbot_id = chatSessions[sid].chatbot_id]_vars

\* C35: for a session and a star's rating r, the update of the close-time
\* request (rating 0) and the update of the star's request (rating r) leave the
\* session ended with rating r in either order, and a request with rating 0
\* that is answered 200 leaves the stored rating as it found it
C35_EndRequestsCommute ==
    /\ \A sid \in SessIds, r \in MIN_STORED_RATING..MAX_RATING :
            sess[sid].rows > 0 =>
                LET closeFirst == EndSessionUpdate(EndSessionUpdate(sess[sid], 0), r)
                    starFirst == EndSessionUpdate(EndSessionUpdate(sess[sid], r), 0)
                IN  /\ closeFirst.ended /\ closeFirst.rating = r
                    /\ starFirst.ended /\ starFirst.rating = r
    /\ (fResp.status = "200" /\ fResp.rating = 0 /\ fResp.existed) =>
            sess[fResp.sessionId].rating = fResp.ratingBefore

\* C35, its case: the request with rating 0 was handled after a star's request
\* had stored its rating, and the rating is still there
C35_Witness ==
    /\ fResp.status = "200" /\ fResp.rating = 0 /\ fResp.existed
    /\ fResp.ratingBefore = MAX_RATING
    /\ sess[fResp.sessionId].ended
    /\ sess[fResp.sessionId].rating = MAX_RATING

\* C36: a chat request that was sent without a session id and whose upsert
\* created the row of a generated id is answered with a session id, whatever
\* else became of the request
C36_CreatedSessionReturned ==
    (cResp.status # None /\ cResp.cand = "none" /\ storeErr = 0) =>
        cResp.sessionId # NoSid

\* C37: when the periodic check has cleared the expired session id that a chat
\* request on its way carries, the response of that request does not bring the
\* id back: the widget holds and persists another id or none
C37_ClearedIdStaysCleared ==
    [][(/\ wg.pending.on /\ wg.pending.alive /\ wg.pending.stale
        /\ wg.pending.sent # NoSid
        /\ wg.expirationShown /\ wg.currentSessionId = NoSid /\ wg.lsId = NoSid
        /\ \E outcome \in {"rejected", "answer", "aiFailed"} : WgReceive(outcome)) =>
            /\ wg'.currentSessionId # wg.pending.sent
            /\ wg'.lsId # wg.pending.sent]_vars

-----------------------------------------------------------------------------
\* sendMessage and POST /api/chat under fairness.  The widget's request is
\* answered or fails (the await of fetch settles); the Worker runs the handler
\* of every request as an invocation of its own, so a request other than the
\* first goes on with its awaits whatever the first one does.  The first
\* request has no fairness: it may stay in its call of the completion API for
\* ever

\* what the fetch of sendMessage may settle with
SendOutcomes == {"rejected", "answer", "aiFailed"}

\* one await of the handler of request r returns
ChatStep(r) ==
    \/ \E fail \in BOOLEAN, documents \in BOOLEAN, aiOk \in BOOLEAN :
          CUserMessage(r, fail, documents, aiOk)
    \/ \E fail \in BOOLEAN : CBotMessage(r, fail)
    \/ \E fail \in BOOLEAN : CIncrement(r, fail)

SendNext ==
    \/ WgShow
    \/ WgSend
    \/ \E outcome \in SendOutcomes : WgReceive(outcome)
    \/ Chat

SpecSend ==
    /\ Init /\ [][SendNext]_vars
    /\ WF_vars(\E outcome \in SendOutcomes : WgReceive(outcome))
    /\ \A r \in 2..MaxChats : WF_vars(ChatStep(r))

\* C38: every send of the widget completes: once its chat request returns or
\* fails, the typing indicator has made way for one reply and the input and the
\* send button are enabled again, whatever the outcome; and a request that
\* stays in its call of the completion API keeps neither the widget's request
\* nor another request of the Worker from completing.
C38_SendCompletes ==
    /\ (wg.pending.on /\ wg.disabled) ~> (~wg.pending.on /\ ~wg.disabled)
    /\ \A r \in 2..MaxChats : InHandler(r) ~> (chatReq[r].pc = "done")
    /\ [](uResp.status # None =>
            ~wg.disabled /\ ~wg.pending.on /\ wg.inFlight = 0)
    /\ [][\A outcome \in SendOutcomes :
            (WgReceive(outcome) /\ wg.pending.alive) =>
                /\ uResp'.status \in {"200", "error"}
                /\ wg'.children = IF wg.pending.typing THEN wg.children
                                                       ELSE Children(wg.children + 1)]_vars

\* the widget has shown the reply of its request and its controls are enabled,
\* a second request of the Worker has completed, and the first request is
\* still in its call of the completion API
C38_Witness ==
    /\ uResp.status # None /\ ~wg.disabled /\ ~wg.pending.on
    /\ chatReq[1].pc = "user"
    /\ chatReq[2].pc = "done"

====
